---------------------------- MODULE Spec2Model ----------------------------
(***************************************************************************)
(* Quiz session manager, durable store, offline action queue and scorer    *)
(* of the AWS Cloud Practitioner quiz web application.                     *)
(*                                                                         *)
(* The specifications of this module:                                      *)
(*   Spec         the quiz session store (createQuizStore) under a caller  *)
(*                making a bounded number of calls, any call at any time   *)
(*   SpecHistory  one session whose caller answers, flags, navigates,      *)
(*                undoes and redoes                                        *)
(*   SpecDrain    one session whose caller answers n times and then undoes *)
(*   SpecStore    StorageManager.saveQuizState on a localStorage as found, *)
(*                with loads, repairs and removals                         *)
(*   SpecRepair   StorageManager.validateAndRepair on a localStorage as    *)
(*                found                                                    *)
(*   SpecQueue    the offline action queue (createOfflineStore)            *)
(*   SpecScore    QuizScorer.calculateResult over bounded exams            *)
(***************************************************************************)
EXTENDS Integers, Sequences, FiniteSets, TLC

VARIABLES
    \* ---- quiz session store (createQuizStore) ----
    quiz,                  \* the writable<QuizState>
    answerHistory,         \* writable<AnswerHistoryEntry[]>
    stateSnapshots,        \* writable<QuizStateSnapshot[]>
    currentSnapshotIndex,  \* writable<number>
    analytics,             \* writable<QuizAnalytics> (counters)
    autoSaveTimer,         \* examId captured by the armed interval, or NoTimer
    maxHistorySize,        \* config.maxHistorySize of this store instance
    \* ---- StorageManager / localStorage ----
    localStorage,          \* key -> stored string (abstracted) or Absent
    emitted,               \* StorageError types emitted by the last operation
    \* ---- observation of the last call ----
    op,                    \* name of the last operation
    ret,                   \* its return value
    calls,                 \* number of calls made on the store so far
    args,                  \* arguments of the last StorageManager call
    before,                \* localStorage before the last StorageManager call
    \* ---- history of the calls, for the laws over call sequences ----
    script,                \* answer^n undo^n run since init
    roundTrip,             \* undo directly followed by redo
    \* ---- offline action queue (createOfflineStore) ----
    offline,               \* writable<OfflineState>: isOnline, pendingActions
    retryTimeouts,         \* Map<string, Timeout>: action id -> timer handle
    timers,                \* armed setTimeout callbacks
    nextId,                \* source of generateId() and of timer handles
    addedOffline,          \* ids added while offline, no online/clear/remove since
    syncing,               \* results awaited by a syncPendingActions in flight
    offlineSaved,          \* what localStorage holds under 'offline-state'
    \* ---- QuizScorer ----
    exam,                  \* the questions given to calculateResult
    examAnswers,           \* the answers map given to calculateResult
    result,                \* the QuizResult it returned
    \* ---- StorageManager error observers ----
    errorCallbacks,        \* StorageManager.errorCallbacks
    \* ---- results store ----
    resultsStore,          \* writable<QuizResult[]> of the results store
    resultErrors,          \* its writable<StorageError[]> errors
    \* ---- preferences store (createPreferencesStore) ----
    preferences,           \* the writable<UserPreferences>
    preferenceErrors,      \* its writable<StorageError[]> errors
    timerStore,            \* writable<TimerState> of the timer store
    intervalId,            \* whether the interval that runs updateTimer is set
    now,                   \* Date.now()
    timerLog               \* when the timer was started and paused, the time
                           \* spent paused, the warnings notified in this run

sessionVars == <<quiz, answerHistory, stateSnapshots, currentSnapshotIndex,
                 analytics, autoSaveTimer, maxHistorySize, script, roundTrip>>
storeVars == <<localStorage, emitted>>
callVars == <<op, ret, calls>>
storeCallVars == <<args, before>>
queueVars == <<offline, retryTimeouts, timers, nextId, addedOffline,
               syncing, offlineSaved>>
scoreVars == <<exam, examAnswers, result>>
errorVars == <<errorCallbacks>>
resultVars == <<resultsStore, resultErrors>>
prefVars == <<preferences, preferenceErrors>>
timerVars == <<timerStore, intervalId, now, timerLog>>
vars == <<sessionVars, storeVars, callVars, storeCallVars, queueVars, scoreVars,
          errorVars, resultVars, prefVars, timerVars>>

-----------------------------------------------------------------------------
(* Bounds of the model *)

\* Largest config.maxHistorySize a store instance is created with.
MaxConfigHistory == 2
\* Number of calls the caller makes on one store instance.
MaxCalls == 4
\* Number of calls made on a store by a caller that only answers, flags,
\* navigates, undoes and redoes after init.
MaxHistoryCalls == 5
\* Largest number n of answers a draining caller makes before its n undos.
MaxAnswers == 3
\* Number of actions the caller adds to the offline queue.
MaxActions == 2
\* No sync is started while this many timers are armed.
MaxTimers == 2
\* Largest number of questions of an exam given to calculateResult.
MaxQuestions == 2
\* Date.now() ranges over 0..MaxTime.
MaxTime == 1

\* The exam in use by the session: its question ids in order.
QOrder == <<"q1", "q2">>
QIDs == {QOrder[i] : i \in 1..Len(QOrder)}
questionCount == Len(QOrder)
\* Selections passed to answerQuestion (option ids; <<>> clears the answer).
Selections == {<<>>, <<"A">>, <<"B">>}
\* exam.id of the exam in use; "" is the examId of the default state.
TheExam == "e1"
ExamIds == {"", TheExam}
Modes == {"practice", "exam"}
Times == 0..MaxTime
\* The clock of a session is read relative to the moment of its init: the
\* code uses time stamps only through their differences and their order.
InitTimes == {0}
\* The mode the session is started in (the default state holds "exam").
SessionModes == {"practice"}
NoTime == 0 - 1

-----------------------------------------------------------------------------
(* localStorage keys and values *)

QUIZ_STATE_PREFIX == "quiz_state_"
QUIZ_RESULTS_KEY == "quiz_results"
USER_PREFERENCES_KEY == "user_preferences"

\* A key is its text without the backup suffix, and whether BACKUP_SUFFIX
\* ends it.  QUIZ_STATE_PREFIX + examId is [base |-> "quiz_state_", id |-> examId].
StateKey(examId) == [base |-> QUIZ_STATE_PREFIX, id |-> examId, backup |-> FALSE]
ResultsKey == [base |-> QUIZ_RESULTS_KEY, id |-> "", backup |-> FALSE]
BackupKey(key) == [key EXCEPT !.backup = TRUE]
MainKey(backupKey) == [backupKey EXCEPT !.backup = FALSE]
PreferencesKey == [base |-> USER_PREFERENCES_KEY, id |-> "", backup |-> FALSE]
Keys == {StateKey(e) : e \in ExamIds} \cup {BackupKey(StateKey(e)) : e \in ExamIds}
            \cup {ResultsKey, BackupKey(ResultsKey), PreferencesKey}
StartsWithStatePrefix(key) == key.base = QUIZ_STATE_PREFIX
EndsWithBackupSuffix(key) == key.backup

\* Stored strings, by what JSON.parse makes of them.
Absent == [kind |-> "absent"]       \* getItem returns null
EmptyString == [kind |-> "empty"]   \* "" : falsy, and JSON.parse throws
Garbage == [kind |-> "garbage"]     \* non-empty, JSON.parse throws
EmptyObject == [kind |-> "object"]  \* "{}" : parses, has no fields
Truthy(v) == v.kind \notin {"absent", "empty"}
Parses(v) == v.kind \in {"object", "state", "results"}

-----------------------------------------------------------------------------
(* QuizState and its serialised forms *)

RECURSIVE SeqOfSet(_, _)
\* The members of s in the order of the sequence `order`.
SeqOfSet(s, order) ==
    IF order = <<>> THEN <<>>
    ELSE (IF Head(order) \in s THEN <<Head(order)>> ELSE <<>>)
             \o SeqOfSet(s, Tail(order))

\* Array.from(map.entries())
Entries(map) == LET ks == SeqOfSet(DOMAIN map, QOrder)
                IN  [i \in 1..Len(ks) |-> <<ks[i], map[ks[i]]>>]
\* new Map(entries): a later pair replaces an earlier one with the same key
MapOf(entries) ==
    LET ks == {entries[i][1] : i \in 1..Len(entries)}
        last(k) == CHOOSE i \in 1..Len(entries) :
                       /\ entries[i][1] = k
                       /\ \A j \in (i+1)..Len(entries) : entries[j][1] # k
    IN  [k \in ks |-> entries[last(k)][2]]
\* new Set(array)
SetOf(array) == {array[i] : i \in 1..Len(array)}

EmptyMap == [k \in {} |-> <<>>]

defaultState ==
    [examId |-> "", mode |-> "exam", currentQuestionIndex |-> 0,
     answers |-> EmptyMap, flaggedQuestions |-> {}, startTime |-> 0,
     endTime |-> NoTime, submitted |-> FALSE, timeElapsed |-> NoTime]

\* JSON.stringify of the serializedState of saveQuizState
Serialize(state) ==
    [kind |-> "state",
     examId |-> state.examId, mode |-> state.mode,
     currentQuestionIndex |-> state.currentQuestionIndex,
     answers |-> Entries(state.answers),
     flaggedQuestions |-> SeqOfSet(state.flaggedQuestions, QOrder),
     startTime |-> state.startTime, endTime |-> state.endTime,
     submitted |-> state.submitted, timeElapsed |-> state.timeElapsed,
     version |-> 1]

\* Revive without its new Set(parsed.flaggedQuestions || [])
Revive_DropsFlags(parsed) ==
    [examId |-> parsed.examId, mode |-> parsed.mode,
     currentQuestionIndex |-> parsed.currentQuestionIndex,
     answers |-> MapOf(parsed.answers),
     flaggedQuestions |-> {},
     startTime |-> parsed.startTime, endTime |-> parsed.endTime,
     submitted |-> parsed.submitted, timeElapsed |-> parsed.timeElapsed]

\* The QuizState loadQuizState builds from a parsed record
Revive(parsed) ==
    [examId |-> parsed.examId, mode |-> parsed.mode,
     currentQuestionIndex |-> parsed.currentQuestionIndex,
     answers |-> MapOf(parsed.answers),
     flaggedQuestions |-> SetOf(parsed.flaggedQuestions),
     startTime |-> parsed.startTime, endTime |-> parsed.endTime,
     submitted |-> parsed.submitted, timeElapsed |-> parsed.timeElapsed]

\* !parsed.examId || !parsed.startTime is false
ValidStateStructure(v) == v.kind = "state" /\ v.examId # ""


-----------------------------------------------------------------------------
(* StorageManager: safe writes and reads.                                    *)
(* Each operator takes the localStorage content ls and returns the content   *)
(* after the call together with what the call returned and emitted.          *)
(* localStorage.getItem and removeItem do not throw; setItem may throw       *)
(* (QuotaExceededError, or any other error in a restricted browsing mode):   *)
(* which of the setItem calls of one operation throw is an input of it.      *)

\* The setItem calls of safeSetItem
SetItemCalls == {"backup", "write", "restore"}
\* The environment of one safeSetItem call: whether usage is at or above the
\* warning threshold, which setItem calls throw, and whether the error thrown
\* is a QuotaExceededError.
Envs == [usageHigh : BOOLEAN, throws : SUBSET SetItemCalls, quota : BOOLEAN]
\* The environments that differ in effect: quota and "restore" matter only
\* when the write throws.
EffectiveEnvs == {e \in Envs : "write" \notin e.throws =>
                                   (~e.quota /\ "restore" \notin e.throws)}
Calm == [usageHigh |-> FALSE, throws |-> {}, quota |-> FALSE]
QuotaFull == [usageHigh |-> TRUE, throws |-> {"write"}, quota |-> TRUE]
\* The environments the session specifications draw from: every write
\* succeeds, or the store is full and the write throws.
SessionEnvs == {Calm, QuotaFull}

SetItem(ls, key, value) == [ls EXCEPT ![key] = value]
RemoveItem(ls, key) == [ls EXCEPT ![key] = Absent]

\* createBackup(key): copies the value of key, when truthy, under the backup key
createBackup(ls, key, throws) ==
    IF Truthy(ls[key]) /\ ~throws
    THEN [ls |-> SetItem(ls, BackupKey(key), ls[key]), ok |-> TRUE]
    ELSE [ls |-> ls, ok |-> FALSE]

\* restoreFromBackup(key): moves the backup copy, when truthy, back under key
restoreFromBackup(ls, key, throws) ==
    IF Truthy(ls[BackupKey(key)]) /\ ~throws
    THEN [ls |-> RemoveItem(SetItem(ls, key, ls[BackupKey(key)]), BackupKey(key)),
          ok |-> TRUE]
    ELSE [ls |-> ls, ok |-> FALSE]

\* Number of entries kept by the cleanup of checkAndCleanupStorage
KeptQuizStates == 10
KeptResults == 100

\* checkAndCleanupStorage(): at or above the warning threshold it emits a
\* quota_exceeded warning and removes the quiz-state entries after the first
\* KeptQuizStates and the results after the first KeptResults.  The key space
\* of this model holds fewer entries than either limit, so the cleanup
\* removes nothing and returns true.
checkAndCleanupStorage(ls, usageHigh) ==
    [ls |-> ls, ok |-> TRUE,
     errs |-> IF usageHigh THEN <<"quota_exceeded">> ELSE <<>>]

\* safeSetItem(key, value)
safeSetItem(ls, key, value, env) ==
    LET checked == checkAndCleanupStorage(ls, env.usageHigh)
        backedUp == createBackup(checked.ls, key, "backup" \in env.throws)
        errorType == IF env.quota THEN "quota_exceeded" ELSE "permission_denied"
    IN  IF ~checked.ok
        THEN [ls |-> checked.ls, ok |-> FALSE,
              errs |-> checked.errs \o <<"quota_exceeded">>]
        ELSE IF "write" \notin env.throws
        THEN [ls |-> SetItem(backedUp.ls, key, value), ok |-> TRUE,
              errs |-> checked.errs]
        ELSE [ls |-> restoreFromBackup(backedUp.ls, key,
                                       "restore" \in env.throws).ls,
              ok |-> FALSE,
              errs |-> checked.errs \o <<errorType>>]

\* safeGetItem(key): getItem does not throw, so this is getItem
safeGetItem(ls, key) == ls[key]

\* saveQuizState(examId, state)
saveQuizState(ls, examId, state, env) ==
    safeSetItem(ls, StateKey(examId), Serialize(state), env)

\* What loadQuizState builds from a parsed backup, which it does not validate:
\* of "{}" every field is undefined.
Undefined == "undefined"
ReviveUnchecked(parsed) ==
    IF parsed.kind = "state" THEN Revive(parsed)
    ELSE [examId |-> Undefined, mode |-> Undefined,
          currentQuestionIndex |-> NoTime,
          answers |-> EmptyMap, flaggedQuestions |-> {}, startTime |-> NoTime,
          endTime |-> NoTime, submitted |-> FALSE, timeElapsed |-> NoTime]

NoState == [examId |-> "null"]

\* loadQuizState(examId): [state, errs]; state is NoState for null
loadQuizState(ls, examId) ==
    LET key == StateKey(examId)
        stored == safeGetItem(ls, key)
        backup == ls[BackupKey(key)]
    IN  IF ~Truthy(stored) THEN [state |-> NoState, errs |-> <<>>]
        ELSE IF Parses(stored) /\ ValidStateStructure(stored)
        THEN [state |-> Revive(stored), errs |-> <<>>]
        ELSE [state |-> IF Truthy(backup) /\ Parses(backup)
                        THEN ReviveUnchecked(backup) ELSE NoState,
              errs |-> <<"corrupted_data">>]

\* clearQuizState(examId)
clearQuizState(ls, examId) == RemoveItem(ls, StateKey(examId))

\* A stored quiz result, by what validateAndRepair reads of it: whether
\* examId and examTitle are truthy, its percentage, and whether startTime and
\* endTime are valid dates (toISOString throws on an invalid one).
Results(list) == [kind |-> "results", list |-> list]

\* getQuizResults(): [] when nothing is stored, when JSON.parse throws, and
\* when the parsed value has no map method
getQuizResults(ls) ==
    LET stored == ls[ResultsKey]
    IN  IF Truthy(stored) /\ stored.kind = "results" THEN stored.list ELSE <<>>

\* The filter of validateAndRepair over the results
ValidResult(r) == r.examOk /\ r.percentage >= 0 /\ r.percentage <= 100

\* The setItem calls of validateAndRepair
RepairSetItemCalls == {"restore", "results"}

\* validateAndRepair(): [ls, isHealthy]
validateAndRepair(ls, throws) ==
    LET keys == {k \in Keys : ls[k] # Absent}
        backupKeys == {k \in keys : EndsWithBackupSuffix(k)}
        mainKeys == keys \ backupKeys
        orphaned == {k \in backupKeys : MainKey(k) \notin mainKeys}
        \* JSON.parse of the backup or the setItem of the main key throws
        failed == {k \in orphaned :
                      Truthy(ls[k]) /\ (~Parses(ls[k]) \/ "restore" \in throws)}
        restored == {k \in orphaned \ failed : Truthy(ls[k])}
        ls1 == [k \in Keys |->
                   IF k \in orphaned \ failed THEN Absent
                   ELSE IF BackupKey(k) \in restored THEN ls[BackupKey(k)]
                   ELSE ls[k]]
        quizStateKeys == {k \in keys : StartsWithStatePrefix(k)}
        corrupted == {k \in quizStateKeys :
                         Truthy(ls1[k]) /\ ~(Parses(ls1[k])
                                               /\ ValidStateStructure(ls1[k]))}
        ls2 == [k \in Keys |-> IF k \in corrupted THEN Absent ELSE ls1[k]]
        results == getQuizResults(ls2)
        validResults == SelectSeq(results, ValidResult)
        rewrite == Len(validResults) # Len(results)
        \* toISOString of an invalid date, or the setItem, throws
        rewriteFails == \/ \E i \in 1..Len(validResults) : ~validResults[i].dateOk
                        \/ "results" \in throws
        ls3 == IF rewrite /\ ~rewriteFails
               THEN SetItem(ls2, ResultsKey, Results(validResults))
               ELSE ls2
    IN  [ls |-> ls3,
         isHealthy |-> failed = {} /\ ~(rewrite /\ rewriteFails),
         \* repairsAttempted.length: a restore and a removal for each
         \* orphaned backup, a removal for each corrupted quiz state, and
         \* the clean-up of the results
         repairsAttempted |->
             Cardinality(restored) + Cardinality(orphaned \ failed)
                 + Cardinality(corrupted)
                 + (IF rewrite /\ ~rewriteFails THEN 1 ELSE 0)]

-----------------------------------------------------------------------------
(* The quiz session store: createQuizStore(config)                           *)

NoTimer == "none"
Void == [void |-> TRUE]
Returned(b) == [ok |-> b]

\* Array.prototype.slice(start) for any integer start
Slice(seq, start) ==
    LET from == IF start < 0
                THEN (IF Len(seq) + start < 0 THEN 0 ELSE Len(seq) + start)
                ELSE (IF start > Len(seq) THEN Len(seq) ELSE start)
    IN  SubSeq(seq, from + 1, Len(seq))

\* createSnapshot(state): the JSON round trip of the state with its map and
\* set turned into arrays (timestamp and version are never read)
createSnapshot(state) ==
    [examId |-> state.examId, mode |-> state.mode,
     currentQuestionIndex |-> state.currentQuestionIndex,
     answers |-> Entries(state.answers),
     flaggedQuestions |-> SeqOfSet(state.flaggedQuestions, QOrder),
     startTime |-> state.startTime, endTime |-> state.endTime,
     submitted |-> state.submitted, timeElapsed |-> state.timeElapsed]

\* restoreFromSnapshot(snapshot)
restoreFromSnapshot(snapshot) ==
    [snapshot EXCEPT !.answers = MapOf(snapshot.answers),
                     !.flaggedQuestions = SetOf(snapshot.flaggedQuestions)]

\* state.answers.get(questionId) || []
AnswerOf(answers, questionId) ==
    IF questionId \in DOMAIN answers THEN answers[questionId] ELSE <<>>

\* WithAnswer without its delete branch
WithAnswer_NoDelete(answers, questionId, selected) ==
    [k \in DOMAIN answers \cup {questionId} |->
         IF k = questionId THEN selected ELSE answers[k]]

\* new Map(answers) followed by set(questionId, selected) when selected is
\* not empty and by delete(questionId) when it is
WithAnswer(answers, questionId, selected) ==
    IF Len(selected) > 0
    THEN [k \in DOMAIN answers \cup {questionId} |->
              IF k = questionId THEN selected ELSE answers[k]]
    ELSE [k \in DOMAIN answers \ {questionId} |-> answers[k]]

noAnalytics ==
    [totalTimeSpent |-> 0, averageQuestionTime |-> [num |-> 0, den |-> 1],
     questionsRevisited |-> 0, flagsUsed |-> 0]

\* The fields of the session the laws below compare
Core(state) ==
    [answers |-> state.answers, flaggedQuestions |-> state.flaggedQuestions,
     currentQuestionIndex |-> state.currentQuestionIndex,
     submitted |-> state.submitted, endTime |-> state.endTime]

NoScript == [phase |-> "off"]
NoRoundTrip == [stage |-> "none"]
Active(state) == state.examId # "" /\ ~state.submitted

\* Date.now() does not run backwards: a new time stamp is not before the
\* ones the session holds
NowAfter(state) == {t \in Times : t >= state.startTime /\ t >= state.endTime}

\* Each mutating call ends in StorageManager.saveQuizState(examId, newState)
Persist(examId, newState, env) ==
    LET saved == saveQuizState(localStorage, examId, newState, env)
    IN  /\ localStorage' = saved.ls
        /\ emitted' = saved.errs

\* A call that is neither answerQuestion, undoAnswer nor redoAnswer ends the
\* recorded runs
OtherCall ==
    /\ script' = NoScript
    /\ roundTrip' = NoRoundTrip

\* init(exam, mode) without its test of savedState.submitted
init_ResumesSubmitted(mode, t, env) ==
    LET loaded == loadQuizState(localStorage, TheExam)
        resume == loaded.state # NoState
        newState == [defaultState EXCEPT !.examId = TheExam, !.mode = mode,
                                         !.startTime = t]
        saved == saveQuizState(localStorage, TheExam, newState, env)
        current == IF resume THEN loaded.state ELSE newState
    IN  /\ quiz' = current
        /\ localStorage' = IF resume THEN localStorage ELSE saved.ls
        /\ emitted' = loaded.errs \o (IF resume THEN <<>> ELSE saved.errs)
        /\ analytics' =
             IF resume
             THEN [noAnalytics EXCEPT
                     !.totalTimeSpent = IF current.timeElapsed = NoTime THEN 0
                                        ELSE current.timeElapsed,
                     !.flagsUsed = Cardinality(current.flaggedQuestions)]
             ELSE noAnalytics
        /\ stateSnapshots' = <<createSnapshot(current)>>
        /\ currentSnapshotIndex' = 0
        /\ answerHistory' = <<>>
        /\ autoSaveTimer' = TheExam
        /\ script' = [phase |-> "answers", n |-> 0, undone |-> 0,
                      base |-> current.answers, allTrue |-> TRUE]
        /\ roundTrip' = NoRoundTrip
        /\ op' = "init" /\ ret' = Void
        /\ UNCHANGED maxHistorySize

\* init(exam, mode)
init(mode, t, env) ==
    LET loaded == loadQuizState(localStorage, TheExam)
        resume == loaded.state # NoState /\ ~loaded.state.submitted
        newState == [defaultState EXCEPT !.examId = TheExam, !.mode = mode,
                                         !.startTime = t]
        saved == saveQuizState(localStorage, TheExam, newState, env)
        current == IF resume THEN loaded.state ELSE newState
    IN  /\ quiz' = current
        /\ localStorage' = IF resume THEN localStorage ELSE saved.ls
        /\ emitted' = loaded.errs \o (IF resume THEN <<>> ELSE saved.errs)
        /\ analytics' =
             IF resume
             THEN [noAnalytics EXCEPT
                     !.totalTimeSpent = IF current.timeElapsed = NoTime THEN 0
                                        ELSE current.timeElapsed,
                     !.flagsUsed = Cardinality(current.flaggedQuestions)]
             ELSE noAnalytics
        /\ stateSnapshots' = <<createSnapshot(current)>>
        /\ currentSnapshotIndex' = 0
        /\ answerHistory' = <<>>
        /\ autoSaveTimer' = TheExam
        /\ script' = [phase |-> "answers", n |-> 0, undone |-> 0,
                      base |-> current.answers, allTrue |-> TRUE]
        /\ roundTrip' = NoRoundTrip
        /\ op' = "init" /\ ret' = Void
        /\ UNCHANGED maxHistorySize

\* goToQuestion(index)
goToQuestion(index, env) ==
    LET newState == [quiz EXCEPT !.currentQuestionIndex = index]
    IN  /\ quiz' = newState
        /\ analytics' = IF index < quiz.currentQuestionIndex
                        THEN [analytics EXCEPT !.questionsRevisited = @ + 1]
                        ELSE analytics
        /\ Persist(quiz.examId, newState, env)
        /\ script' = NoScript
        /\ roundTrip' = NoRoundTrip
        /\ op' = "goToQuestion" /\ ret' = Void
        /\ UNCHANGED <<answerHistory, stateSnapshots, currentSnapshotIndex,
                       autoSaveTimer, maxHistorySize>>

\* nextQuestion()
nextQuestion(env) ==
    LET newIndex == IF quiz.currentQuestionIndex + 1 < 999
                    THEN quiz.currentQuestionIndex + 1 ELSE 999
        newState == [quiz EXCEPT !.currentQuestionIndex = newIndex]
    IN  /\ quiz' = newState
        /\ Persist(quiz.examId, newState, env)
        /\ OtherCall
        /\ op' = "nextQuestion" /\ ret' = Void
        /\ UNCHANGED <<analytics, answerHistory, stateSnapshots,
                       currentSnapshotIndex, autoSaveTimer, maxHistorySize>>

\* previousQuestion()
previousQuestion(env) ==
    LET newIndex == IF quiz.currentQuestionIndex - 1 > 0
                    THEN quiz.currentQuestionIndex - 1 ELSE 0
        newState == [quiz EXCEPT !.currentQuestionIndex = newIndex]
    IN  /\ quiz' = newState
        /\ analytics' = [analytics EXCEPT !.questionsRevisited = @ + 1]
        /\ Persist(quiz.examId, newState, env)
        /\ OtherCall
        /\ op' = "previousQuestion" /\ ret' = Void
        /\ UNCHANGED <<answerHistory, stateSnapshots, currentSnapshotIndex,
                       autoSaveTimer, maxHistorySize>>

\* answerQuestion(questionId, selectedAnswers)
answerQuestion(questionId, selectedAnswers, env) ==
    LET previousAnswers == AnswerOf(quiz.answers, questionId)
        entry == [questionId |-> questionId, previousAnswers |-> previousAnswers,
                  newAnswers |-> selectedAnswers]
        newState == [quiz EXCEPT
                       !.answers = WithAnswer(@, questionId, selectedAnswers)]
    IN  /\ answerHistory' =
               Append(Slice(answerHistory, -maxHistorySize + 1), entry)
        /\ quiz' = newState
        /\ stateSnapshots' =
               Append(Slice(stateSnapshots, -maxHistorySize + 1),
                      createSnapshot(newState))
        /\ currentSnapshotIndex' = currentSnapshotIndex + 1
        /\ Persist(quiz.examId, newState, env)
        /\ script' = IF script.phase = "answers"
                     THEN [script EXCEPT !.n = @ + 1] ELSE NoScript
        /\ roundTrip' = NoRoundTrip
        /\ op' = "answerQuestion" /\ ret' = Void
        /\ UNCHANGED <<analytics, autoSaveTimer, maxHistorySize>>

\* toggleFlag(questionId)
toggleFlag(questionId, env) ==
    LET wasRemoved == questionId \in quiz.flaggedQuestions
        newFlagged == IF wasRemoved
                      THEN quiz.flaggedQuestions \ {questionId}
                      ELSE quiz.flaggedQuestions \cup {questionId}
        newState == [quiz EXCEPT !.flaggedQuestions = newFlagged]
        flagsUsed == IF wasRemoved THEN analytics.flagsUsed - 1
                     ELSE analytics.flagsUsed + 1
    IN  /\ quiz' = newState
        /\ analytics' = [analytics EXCEPT !.flagsUsed = flagsUsed]
        /\ Persist(quiz.examId, newState, env)
        /\ script' = NoScript
        /\ roundTrip' = NoRoundTrip
        /\ op' = "toggleFlag" /\ ret' = Void
        /\ UNCHANGED <<answerHistory, stateSnapshots, currentSnapshotIndex,
                       autoSaveTimer, maxHistorySize>>

\* undoAnswer()
undoAnswer(env) ==
    LET refused == Len(answerHistory) = 0 \/ currentSnapshotIndex <= 0
        lastEntry == answerHistory[Len(answerHistory)]
        newState == [quiz EXCEPT
                       !.answers = WithAnswer(@, lastEntry.questionId,
                                              lastEntry.previousAnswers)]
        counted == \/ script.phase = "answers" /\ script.n >= 1
                   \/ script.phase = "undos" /\ script.undone < script.n
    IN  /\ IF refused
           THEN /\ UNCHANGED <<quiz, answerHistory, currentSnapshotIndex,
                               localStorage>>
                /\ emitted' = <<>>
           ELSE /\ quiz' = newState
                /\ Persist(quiz.examId, newState, env)
                /\ answerHistory' = SubSeq(answerHistory, 1,
                                           Len(answerHistory) - 1)
                /\ currentSnapshotIndex' =
                       IF currentSnapshotIndex - 1 > 0
                       THEN currentSnapshotIndex - 1 ELSE 0
        /\ script' = IF counted
                     THEN [script EXCEPT !.phase = "undos", !.undone = @ + 1,
                                         !.allTrue = @ /\ ~refused]
                     ELSE NoScript
        /\ roundTrip' = IF ~refused /\ Active(quiz)
                        THEN [stage |-> "undone", S |-> Core(quiz)]
                        ELSE NoRoundTrip
        /\ op' = "undoAnswer" /\ ret' = Returned(~refused)
        /\ UNCHANGED <<stateSnapshots, analytics, autoSaveTimer,
                       maxHistorySize>>

\* redoAnswer()
redoAnswer(env) ==
    LET refused == currentSnapshotIndex >= Len(stateSnapshots) - 1
        restoredState == restoreFromSnapshot(
                             stateSnapshots[currentSnapshotIndex + 2])
    IN  /\ IF refused
           THEN /\ UNCHANGED <<quiz, currentSnapshotIndex, localStorage>>
                /\ emitted' = <<>>
           ELSE /\ quiz' = restoredState
                /\ currentSnapshotIndex' = currentSnapshotIndex + 1
                /\ Persist(restoredState.examId, restoredState, env)
        /\ script' = NoScript
        /\ roundTrip' = IF roundTrip.stage = "undone"
                        THEN [roundTrip EXCEPT !.stage = "redone"]
                        ELSE NoRoundTrip
        /\ op' = "redoAnswer" /\ ret' = Returned(~refused)
        /\ UNCHANGED <<answerHistory, stateSnapshots, analytics,
                       autoSaveTimer, maxHistorySize>>

\* submit() without its clearInterval(autoSaveTimer)
submit_KeepsTimer(t) ==
    LET totalTime == t - quiz.startTime
        answered == Cardinality(DOMAIN quiz.answers)
        newState == [quiz EXCEPT !.submitted = TRUE, !.endTime = t,
                                 !.timeElapsed = totalTime]
    IN  /\ quiz' = newState
        /\ analytics' = [analytics EXCEPT
                           !.totalTimeSpent = totalTime,
                           !.averageQuestionTime =
                               IF answered > 0
                               THEN [num |-> totalTime, den |-> answered]
                               ELSE [num |-> 0, den |-> 1]]
        /\ autoSaveTimer' = autoSaveTimer
        /\ localStorage' = clearQuizState(localStorage, quiz.examId)
        /\ emitted' = <<>>
        /\ script' = NoScript
        /\ roundTrip' = NoRoundTrip
        /\ op' = "submit" /\ ret' = Void
        /\ UNCHANGED <<answerHistory, stateSnapshots, currentSnapshotIndex,
                       maxHistorySize>>

\* submit()
submit(t) ==
    LET totalTime == t - quiz.startTime
        answered == Cardinality(DOMAIN quiz.answers)
        newState == [quiz EXCEPT !.submitted = TRUE, !.endTime = t,
                                 !.timeElapsed = totalTime]
    IN  /\ quiz' = newState
        /\ analytics' = [analytics EXCEPT
                           !.totalTimeSpent = totalTime,
                           !.averageQuestionTime =
                               IF answered > 0
                               THEN [num |-> totalTime, den |-> answered]
                               ELSE [num |-> 0, den |-> 1]]
        /\ autoSaveTimer' = NoTimer
        /\ localStorage' = clearQuizState(localStorage, quiz.examId)
        /\ emitted' = <<>>
        /\ script' = NoScript
        /\ roundTrip' = NoRoundTrip
        /\ op' = "submit" /\ ret' = Void
        /\ UNCHANGED <<answerHistory, stateSnapshots, currentSnapshotIndex,
                       maxHistorySize>>

\* clear()
clear ==
    /\ quiz' = defaultState
    /\ answerHistory' = <<>>
    /\ stateSnapshots' = <<>>
    /\ currentSnapshotIndex' = -1
    /\ analytics' = noAnalytics
    /\ autoSaveTimer' = NoTimer
    /\ emitted' = <<>>
    /\ OtherCall
    /\ op' = "clear" /\ ret' = Void
    /\ UNCHANGED <<localStorage, maxHistorySize>>

\* The interval callback armed by startAutoSave(examId)
autoSaveTick(env) ==
    /\ autoSaveTimer # NoTimer
    /\ IF ~quiz.submitted
       THEN Persist(autoSaveTimer, quiz, env)
       ELSE UNCHANGED localStorage /\ emitted' = <<>>
    /\ op' = "autoSave" /\ ret' = Void
    /\ UNCHANGED sessionVars

-----------------------------------------------------------------------------
(* Initial values of the parts a specification does not exercise *)

SessionIdle ==
    /\ quiz = defaultState
    /\ answerHistory = <<>>
    /\ stateSnapshots = <<>>
    /\ currentSnapshotIndex = -1
    /\ analytics = noAnalytics
    /\ autoSaveTimer = NoTimer
    /\ script = NoScript
    /\ roundTrip = NoRoundTrip

NoArgs == [none |-> TRUE]

StoreEmpty ==
    /\ localStorage = [k \in Keys |-> Absent]
    /\ emitted = <<>>
    /\ args = NoArgs
    /\ before = localStorage

NoSync == [none |-> TRUE]
NotSaved == [kind |-> "absent"]

QueueIdle ==
    /\ offline = [isOnline |-> TRUE, pendingActions |-> <<>>]
    /\ retryTimeouts = [i \in {} |-> 0]
    /\ timers = {}
    /\ nextId = 1
    /\ addedOffline = {}
    /\ syncing = NoSync
    /\ offlineSaved = NotSaved

ScorerIdle ==
    /\ exam = <<>>
    /\ examAnswers = EmptyMap
    /\ result = [void |-> TRUE]

ErrorsIdle == errorCallbacks = <<>>

ResultsIdle == resultsStore = <<>> /\ resultErrors = <<>>

\* A preference value, by its typeof and its text
Str(text) == [type |-> "string", text |-> text]
Bool(b) == [type |-> "boolean", text |-> IF b THEN "true" ELSE "false"]
\* defaultPreferences: the theme and one of the boolean preferences
defaultPreferences == [theme |-> Str("system"), showTimer |-> Bool(TRUE)]

PreferencesIdle ==
    /\ preferences = defaultPreferences
    /\ preferenceErrors = <<>>

\* An optional number: undefined or a number
NoValue == [kind |-> "undefined"]
Number(n) == [kind |-> "number", value |-> n]

\* No warning of this run was notified, nothing was started or paused
NoLog == [startedAt |-> 0, pausedAt |-> 0, pausedTotal |-> 0, notified |-> {}]

\* defaultState of the timer store
defaultTimerState ==
    [isRunning |-> FALSE, isPaused |-> FALSE, startTime |-> NoValue,
     pausedTime |-> 0, remainingTime |-> NoValue, warnings |-> <<>>]
TimerIdle ==
    /\ timerStore = defaultTimerState
    /\ intervalId = FALSE
    /\ now = 0
    /\ timerLog = NoLog

-----------------------------------------------------------------------------
(* The session specifications: a caller makes up to MaxCalls calls on a      *)
(* store created with some maxHistorySize, over an empty localStorage.       *)

Created ==
    /\ SessionIdle
    /\ maxHistorySize \in 1..MaxConfigHistory
    /\ StoreEmpty
    /\ op = "create" /\ ret = Void /\ calls = 0

Init == Created /\ QueueIdle /\ ScorerIdle /\ ErrorsIdle /\ ResultsIdle /\ PreferencesIdle /\ TimerIdle

\* One more call of a caller that makes up to `budget` calls
Call(budget) ==
    /\ calls < budget
    /\ calls' = calls + 1
    /\ UNCHANGED <<storeCallVars, queueVars, scoreVars, errorVars, resultVars, prefVars, timerVars>>

CallInit(budget) ==
    \E mode \in SessionModes, t \in InitTimes, env \in SessionEnvs :
        Call(budget) /\ init(mode, t, env)
CallGoToQuestion(budget) ==
    \E index \in -1..questionCount, env \in SessionEnvs :
        Call(budget) /\ goToQuestion(index, env)
CallNextQuestion(budget) ==
    \E env \in SessionEnvs : Call(budget) /\ nextQuestion(env)
CallPreviousQuestion(budget) ==
    \E env \in SessionEnvs : Call(budget) /\ previousQuestion(env)
CallAnswerQuestion(budget) ==
    \E questionId \in QIDs, selected \in Selections, env \in SessionEnvs :
        Call(budget) /\ answerQuestion(questionId, selected, env)
CallToggleFlag(budget) ==
    \E questionId \in QIDs, env \in SessionEnvs :
        Call(budget) /\ toggleFlag(questionId, env)
CallUndoAnswer(budget) ==
    \E env \in SessionEnvs : Call(budget) /\ undoAnswer(env)
CallRedoAnswer(budget) ==
    \E env \in SessionEnvs : Call(budget) /\ redoAnswer(env)
CallSubmit(budget) == \E t \in NowAfter(quiz) : Call(budget) /\ submit(t)
CallClear(budget) == Call(budget) /\ clear
\* The auto-save interval fires between the calls
AutoSave ==
    /\ op # "autoSave"
    /\ \E env \in SessionEnvs : autoSaveTick(env)
    /\ UNCHANGED <<calls, storeCallVars, queueVars, scoreVars, errorVars, resultVars, prefVars, timerVars>>

Next ==
    \/ CallInit(MaxCalls)
    \/ CallGoToQuestion(MaxCalls)
    \/ CallNextQuestion(MaxCalls)
    \/ CallPreviousQuestion(MaxCalls)
    \/ CallAnswerQuestion(MaxCalls)
    \/ CallToggleFlag(MaxCalls)
    \/ CallUndoAnswer(MaxCalls)
    \/ CallRedoAnswer(MaxCalls)
    \/ CallSubmit(MaxCalls)
    \/ CallClear(MaxCalls)
    \/ AutoSave

Spec == Init /\ [][Next]_vars

\* C1: once submit() has run, a call of answerQuestion, toggleFlag or
\* goToQuestion leaves answers, flaggedQuestions, currentQuestionIndex,
\* submitted and endTime of the session as they were.
C1_SubmittedSessionFrozen ==
    [][(quiz.examId # "" /\ quiz.submitted
          /\ op' \in {"answerQuestion", "toggleFlag", "goToQuestion"})
         => Core(quiz') = Core(quiz)]_vars

\* C2: after goToQuestion(i) on an initialised session, for any integer i,
\* 0 <= currentQuestionIndex < questionCount.
C2_GoToQuestionInBounds ==
    (op = "goToQuestion" /\ quiz.examId # "")
        => quiz.currentQuestionIndex \in 0..(questionCount - 1)

-----------------------------------------------------------------------------
(* The undo/redo history of one session: after init the caller answers,      *)
(* flags, navigates, undoes and redoes.                                      *)

HistoryNext ==
    \/ calls = 0 /\ CallInit(MaxHistoryCalls)
    \/ calls > 0 /\ CallGoToQuestion(MaxHistoryCalls)
    \/ calls > 0 /\ CallAnswerQuestion(MaxHistoryCalls)
    \/ calls > 0 /\ CallToggleFlag(MaxHistoryCalls)
    \/ calls > 0 /\ CallUndoAnswer(MaxHistoryCalls)
    \/ calls > 0 /\ CallRedoAnswer(MaxHistoryCalls)

SpecHistory == Init /\ [][HistoryNext]_vars

\* C4: from an active session state S in which undoAnswer() returns true,
\* undoAnswer() followed by redoAnswer() yields a state equal to S in
\* answers, flaggedQuestions and currentQuestionIndex.
C4_UndoRedoRoundTrip ==
    roundTrip.stage = "redone" =>
        /\ quiz.answers = roundTrip.S.answers
        /\ quiz.flaggedQuestions = roundTrip.S.flaggedQuestions
        /\ quiz.currentQuestionIndex = roundTrip.S.currentQuestionIndex

-----------------------------------------------------------------------------
(* A draining caller: init, then n answerQuestion calls, then undoAnswer     *)
(* calls.                                                                    *)

DrainCalls == 2 + 2 * MaxAnswers

DrainNext ==
    \/ calls = 0 /\ CallInit(DrainCalls)
    \/ /\ script.phase = "answers"
       /\ script.n < MaxAnswers
       /\ CallAnswerQuestion(DrainCalls)
    \/ script.phase # "off" /\ CallUndoAnswer(DrainCalls)

SpecDrain == Init /\ [][DrainNext]_vars

Drained == script.phase = "undos" /\ script.undone = script.n
Restored == script.allTrue /\ quiz.answers = script.base

\* C3: from a freshly initialised session, n answerQuestion calls followed
\* by n undoAnswer calls leave the answers map as it was before the first
\* answer, each undo returning true -- for every n >= 1 and every
\* maxHistorySize.
C3_DrainRestoresAnswers == Drained => Restored

\* C3, amended: the same for 1 <= n <= maxHistorySize, and for every n when
\* maxHistorySize is 1 (slice(0) then trims nothing).
C3_DrainWithinHistoryRestores ==
    (Drained /\ (script.n <= maxHistorySize \/ maxHistorySize = 1))
        => Restored

\* n = maxHistorySize >= 2 answers have been undone, every undo returning
\* true, and the answers map is empty again
C3_DrainedWitness ==
    /\ Drained
    /\ script.n = maxHistorySize /\ script.n >= 2
    /\ op = "undoAnswer" /\ ret = Returned(TRUE)
    /\ quiz.answers = EmptyMap

-----------------------------------------------------------------------------
(* StorageManager over an arbitrary localStorage: one saveQuizState on the   *)
(* store as found, and loads, repairs and removals at any time.              *)

\* Answers maps and flag sets of the states handed to saveQuizState
AnswerMaps ==
    {EmptyMap,
     [q \in {"q2"} |-> <<"B">>],
     [q \in QIDs |-> IF q = "q1" THEN <<"A", "B">> ELSE <<"B">>]}
SavedStates ==
    {[defaultState EXCEPT !.examId = e, !.mode = m,
                          !.currentQuestionIndex = i, !.answers = a,
                          !.flaggedQuestions = f, !.submitted = sub] :
        e \in ExamIds, m \in Modes, i \in {0, 1}, a \in AnswerMaps,
        f \in {{}, QIDs}, sub \in BOOLEAN}

\* What a quiz-state key or its backup key holds when the store is found
anOldState == [defaultState EXCEPT !.examId = TheExam,
                                   !.answers = [q \in {"q1"} |-> <<"A">>]]
FoundStateValues ==
    {Absent, EmptyString, Garbage, EmptyObject, Serialize(anOldState)}
\* Stored results with a percentage in range, below it, above it, and with
\* an invalid date
okResult == [examOk |-> TRUE, percentage |-> 50, dateOk |-> TRUE]
lowResult == [okResult EXCEPT !.percentage = -1]
highResult == [okResult EXCEPT !.percentage = 101]
undatedResult == [okResult EXCEPT !.dateOk = FALSE]
FoundResultsValues ==
    {Absent, Garbage, EmptyObject} \cup
    {Results(l) : l \in {<<okResult>>, <<okResult, lowResult>>,
                         <<undatedResult, highResult>>}}
FoundResultsBackupValues == {Absent, Results(<<highResult>>)}

Found(ResultsValues, ResultsBackupValues) ==
    /\ \E main \in FoundStateValues, backup \in FoundStateValues,
          results \in ResultsValues, resultsBackup \in ResultsBackupValues :
          localStorage =
              [k \in Keys |->
                  IF k = StateKey(TheExam) THEN main
                  ELSE IF k = BackupKey(StateKey(TheExam)) THEN backup
                  ELSE IF k = ResultsKey THEN results
                  ELSE IF k = BackupKey(ResultsKey) THEN resultsBackup
                  ELSE Absent]
    /\ emitted = <<>>
    /\ args = NoArgs
    /\ before = localStorage
    /\ op = "create" /\ ret = Void /\ calls = 0
    /\ maxHistorySize = 1

\* The store as saveQuizState finds it holds no results
StoreInit ==
    /\ Found({Absent}, {Absent})
    /\ SessionIdle /\ QueueIdle /\ ScorerIdle /\ ErrorsIdle /\ ResultsIdle /\ PreferencesIdle /\ TimerIdle

StoreCall(name) ==
    /\ op' = name
    /\ before' = localStorage
    /\ UNCHANGED <<calls, sessionVars, queueVars, scoreVars, errorVars, resultVars, prefVars, timerVars>>

StoreSaveQuizState ==
    \E examId \in ExamIds, state \in SavedStates, env \in EffectiveEnvs :
        LET saved == saveQuizState(localStorage, examId, state, env)
        IN  /\ op = "create"
            /\ StoreCall("saveQuizState")
            /\ args' = [examId |-> examId, state |-> state]
            /\ localStorage' = saved.ls
            /\ emitted' = saved.errs
            /\ ret' = Returned(saved.ok)

\* args.after is the state a saveQuizState(examId, state) wrote when that
\* call came directly before this one and returned true
StoreLoadQuizState ==
    \E examId \in ExamIds :
        LET loaded == loadQuizState(localStorage, examId)
        IN  /\ StoreCall("loadQuizState")
            /\ args' = [examId |-> examId,
                         after |-> IF /\ op = "saveQuizState"
                                      /\ ret = Returned(TRUE)
                                      /\ args.examId = examId
                                   THEN [saved |-> args.state]
                                   ELSE NoArgs]
            /\ emitted' = loaded.errs
            /\ ret' = [state |-> loaded.state]
            /\ UNCHANGED localStorage

StoreValidateAndRepair ==
    \E throws \in SUBSET RepairSetItemCalls :
        LET repaired == validateAndRepair(localStorage, throws)
        IN  /\ StoreCall("validateAndRepair")
            /\ args' = NoArgs
            /\ localStorage' = repaired.ls
            /\ emitted' = <<>>
            /\ ret' = [isHealthy |-> repaired.isHealthy,
                       repairsAttempted |-> repaired.repairsAttempted]

StoreClearQuizState ==
    \E examId \in ExamIds :
        /\ StoreCall("clearQuizState")
        /\ args' = [examId |-> examId]
        /\ localStorage' = clearQuizState(localStorage, examId)
        /\ emitted' = <<>>
        /\ ret' = Void

StoreNext ==
    \/ StoreSaveQuizState
    \/ StoreLoadQuizState
    \/ StoreValidateAndRepair
    \/ StoreClearQuizState

SpecStore == StoreInit /\ [][StoreNext]_vars

\* C5: a saveQuizState whose setItem throws returns false, emits a
\* StorageError, and leaves under its key the value stored there before the
\* call -- also when the key was absent and a stale backup exists.
C5_FailedSaveKeepsValue ==
    (op = "saveQuizState" /\ ret = Returned(FALSE)) =>
        /\ emitted # <<>>
        /\ localStorage[StateKey(args.examId)] = before[StateKey(args.examId)]

SameSession(loaded, s) ==
    /\ loaded # NoState
    /\ loaded.examId = s.examId
    /\ loaded.mode = s.mode
    /\ loaded.currentQuestionIndex = s.currentQuestionIndex
    /\ loaded.answers = s.answers
    /\ loaded.flaggedQuestions = s.flaggedQuestions
    /\ loaded.submitted = s.submitted
LoadedAfterSave == op = "loadQuizState" /\ args.after # NoArgs

\* C6: for every state s, a saveQuizState(examId, s) that returns true
\* followed directly by loadQuizState(examId) returns a state with the
\* examId, mode, currentQuestionIndex, answers, flags and submitted of s.
C6_SaveLoadRoundTrip ==
    LoadedAfterSave => SameSession(ret.state, args.after.saved)

\* C6, amended: the same for every state s whose examId is not empty
\* (loadQuizState rejects a record whose examId is falsy).
C6_SaveLoadRoundTripOfNamedExam ==
    (LoadedAfterSave /\ args.after.saved.examId # "")
        => SameSession(ret.state, args.after.saved)

\* A state with two answers, one of two options, and two flags came back
C6_RoundTripWitness ==
    /\ LoadedAfterSave
    /\ args.after.saved.examId # ""
    /\ ret.state # NoState
    /\ DOMAIN ret.state.answers = QIDs
    /\ ret.state.flaggedQuestions = QIDs

-----------------------------------------------------------------------------
(* validateAndRepair over an arbitrary localStorage, and the loads after it  *)

RepairInit ==
    /\ Found(FoundResultsValues, FoundResultsBackupValues)
    /\ SessionIdle /\ QueueIdle /\ ScorerIdle /\ ErrorsIdle /\ ResultsIdle /\ PreferencesIdle /\ TimerIdle

RepairNext ==
    \/ StoreValidateAndRepair
    \/ StoreLoadQuizState

SpecRepair == RepairInit /\ [][RepairNext]_vars

InvalidQuizState(v) == v # Absent /\ ~(Parses(v) /\ ValidStateStructure(v))
OutOfRange(r) == r.percentage < 0 \/ r.percentage > 100

\* C7: whenever validateAndRepair() returns isHealthy = true, no key with
\* the quiz-state prefix holds a record that is unparsable or lacks examId,
\* and no stored result has a percentage outside [0, 100].
C7_HealthyMeansValid ==
    (op = "validateAndRepair" /\ ret.isHealthy) =>
        /\ \A k \in Keys : StartsWithStatePrefix(k)
                                => ~InvalidQuizState(localStorage[k])
        /\ \A i \in 1..Len(getQuizResults(localStorage)) :
               ~OutOfRange(getQuizResults(localStorage)[i])

-----------------------------------------------------------------------------
(* The offline action queue: createOfflineStore()                            *)

\* The action types processPendingAction knows
ValidTypes == {"answer", "flag", "navigation", "submit"}
\* The types passed to addPendingAction; the last is one it does not know
ActionTypes == {"answer", "unknown"}

\* scheduleRetry gives up at this retryCount
MaxRetries == 3
\* Base and cap of the retry delay, in milliseconds
BaseDelay == 1000
DelayCap == 30000

\* processPendingAction(action): false when the switch throws
processPendingAction(action) == action.type \in ValidTypes

\* Math.min(1000 * Math.pow(2, retryCount), 30000)
RetryDelay(retryCount) ==
    IF BaseDelay * 2^retryCount < DelayCap
    THEN BaseDelay * 2^retryCount ELSE DelayCap

PendingIds(state) ==
    {state.pendingActions[i].id : i \in 1..Len(state.pendingActions)}

\* The timer side of the store: the armed timers and the retryTimeouts map
TimerSide == [timers |-> timers, retryTimeouts |-> retryTimeouts]

\* The handle setTimeout returns: one no armed timer and no map entry holds
NewHandle(side) ==
    LET used == {t.handle : t \in side.timers}
                    \cup {side.retryTimeouts[i] : i \in DOMAIN side.retryTimeouts}
    IN  CHOOSE h \in 1..(Cardinality(used) + 1) : h \notin used

\* scheduleRetry(action)
scheduleRetry(side, action) ==
    IF action.retryCount >= MaxRetries THEN side
    ELSE LET timeout == NewHandle(side)
             delay == RetryDelay(action.retryCount)
         IN  [timers |-> side.timers \cup
                           {[handle |-> timeout, kind |-> "retry",
                             action |-> action, delay |-> delay]},
              retryTimeouts |->
                  [i \in DOMAIN side.retryTimeouts \cup {action.id} |->
                      IF i = action.id THEN timeout
                      ELSE side.retryTimeouts[i]]]

RECURSIVE scheduleRetries(_, _)
\* failedActions.forEach(action => scheduleRetry(action))
scheduleRetries(side, failedActions) ==
    IF failedActions = <<>> THEN side
    ELSE scheduleRetries(scheduleRetry(side, Head(failedActions)),
                         Tail(failedActions))

\* pendingActions.filter(a => a.id # one of ids)
WithoutIds(pendingActions, ids) ==
    SelectSeq(pendingActions, LAMBDA a : a.id \notin ids)

\* saveOfflineState(state)
saveOfflineState(state) == [kind |-> "offline", state |-> state]

SetTimerSide(side) ==
    /\ timers' = side.timers
    /\ retryTimeouts' = side.retryTimeouts

QueueCall(name) ==
    /\ op' = name
    /\ UNCHANGED <<ret, calls, sessionVars, storeVars, storeCallVars, scoreVars, errorVars, resultVars, prefVars, timerVars>>

\* The results syncPendingActions awaits: processPendingAction of each
\* pending action, in order
SyncResults(state) ==
    [i \in 1..Len(state.pendingActions) |->
        processPendingAction(state.pendingActions[i])]

\* The update callback of syncPendingActions without its filter of the
\* successful actions
SyncUpdate_KeepsAll(currentState, side, results) ==
    [state |-> currentState, side |-> side, saved |-> TRUE]

\* The update callback syncPendingActions runs once the results are in.
\* results[index] is read against currentState.pendingActions[index]: past
\* the end of the list the action is undefined, and action.id (of a
\* fulfilled result) or action.retryCount (in scheduleRetry) throws, so the
\* store keeps its value and nothing is saved.
SyncUpdate(currentState, side, results) ==
    LET n == Len(currentState.pendingActions)
        m == Len(results)
        both == IF m < n THEN m ELSE n
        successfulActions ==
            {currentState.pendingActions[i].id : i \in {j \in 1..both : results[j]}}
        failedActions ==
            SelectSeq([i \in 1..both |->
                          [a |-> currentState.pendingActions[i], ok |-> results[i]]],
                      LAMBDA r : ~r.ok)
        failed == [i \in 1..Len(failedActions) |-> failedActions[i].a]
        throwsAtOnce == \E i \in (n + 1)..m : results[i]
        newState == [currentState EXCEPT
                       !.pendingActions = WithoutIds(@, successfulActions)]
    IN  IF throwsAtOnce
        THEN [state |-> currentState, side |-> side, saved |-> FALSE]
        ELSE IF m > n
        THEN [state |-> currentState, side |-> scheduleRetries(side, failed),
              saved |-> FALSE]
        ELSE [state |-> newState, side |-> scheduleRetries(side, failed),
              saved |-> TRUE]

\* syncPendingActions() run without a caller in between: from the interval
\* and from handleOnline, whose task ends at the await
SyncNow(state) ==
    IF ~state.isOnline \/ Len(state.pendingActions) = 0
    THEN /\ offline' = state
         /\ UNCHANGED <<timers, retryTimeouts, offlineSaved>>
    ELSE LET done == SyncUpdate(state, TimerSide, SyncResults(state))
         IN  /\ offline' = done.state
             /\ SetTimerSide(done.side)
             /\ offlineSaved' = IF done.saved THEN saveOfflineState(done.state)
                                 ELSE offlineSaved

\* addPendingAction(type, data)
addPendingAction(type) ==
    LET action == [id |-> nextId, type |-> type, retryCount |-> 0]
        newState == [offline EXCEPT !.pendingActions = Append(@, action)]
    IN  /\ offline' = newState
        /\ offlineSaved' = saveOfflineState(newState)
        /\ nextId' = nextId + 1
        /\ timers' = IF newState.isOnline
                      THEN timers \cup {[handle |-> NewHandle(TimerSide),
                                         kind |-> "immediate",
                                         action |-> action, delay |-> 0]}
                      ELSE timers
        /\ addedOffline' = IF newState.isOnline THEN addedOffline
                            ELSE addedOffline \cup {action.id}
        /\ QueueCall("addPendingAction")
        /\ UNCHANGED <<retryTimeouts, syncing>>

\* The setTimeout(..., 0) callback of addPendingAction
ImmediateTimer(t) ==
    /\ t \in timers /\ t.kind = "immediate"
    /\ IF processPendingAction(t.action)
       THEN /\ offline' = [offline EXCEPT
                              !.pendingActions = WithoutIds(@, {t.action.id})]
            /\ SetTimerSide([TimerSide EXCEPT !.timers = @ \ {t}])
       ELSE /\ SetTimerSide(scheduleRetry(
                                [TimerSide EXCEPT !.timers = @ \ {t}], t.action))
            /\ UNCHANGED offline
    /\ QueueCall("immediateTimer")
    /\ UNCHANGED <<nextId, addedOffline, syncing, offlineSaved>>

\* The setTimeout(..., delay) callback of scheduleRetry
RetryTimer(t) ==
    /\ t \in timers /\ t.kind = "retry"
    /\ IF processPendingAction(t.action)
       THEN /\ offline' = [offline EXCEPT
                              !.pendingActions = WithoutIds(@, {t.action.id})]
            /\ SetTimerSide(
                   [TimerSide EXCEPT
                      !.timers = @ \ {t},
                      !.retryTimeouts =
                          [i \in DOMAIN @ \ {t.action.id} |-> @[i]]])
       ELSE /\ offline' =
                   [offline EXCEPT
                      !.pendingActions =
                          [i \in 1..Len(@) |->
                              IF @[i].id = t.action.id
                              THEN [@[i] EXCEPT !.retryCount = @ + 1]
                              ELSE @[i]]]
            /\ SetTimerSide(scheduleRetry(
                                [TimerSide EXCEPT !.timers = @ \ {t}],
                                [t.action EXCEPT !.retryCount = @ + 1]))
    /\ QueueCall("retryTimer")
    /\ UNCHANGED <<nextId, addedOffline, syncing, offlineSaved>>

\* sync(): syncPendingActions() up to its await; the caller runs on.  The
\* call holds the state it read (state.pendingActions) and the results of
\* processing those actions
sync ==
    /\ syncing' = IF ~offline.isOnline \/ Len(offline.pendingActions) = 0
                   THEN NoSync
                   ELSE [results |-> SyncResults(offline),
                         actions |-> offline.pendingActions]
    /\ QueueCall("sync")
    /\ UNCHANGED <<offline, retryTimeouts, timers, nextId, addedOffline,
                   offlineSaved>>

\* syncPendingActions() from its await on
SyncResume ==
    /\ syncing # NoSync
    /\ LET done == SyncUpdate(offline, TimerSide, syncing.results)
       IN  /\ offline' = done.state
           /\ SetTimerSide(done.side)
           /\ offlineSaved' = IF done.saved THEN saveOfflineState(done.state)
                               ELSE offlineSaved
    /\ syncing' = NoSync
    /\ QueueCall("syncResume")
    /\ UNCHANGED <<nextId, addedOffline>>

\* handleOnline: the 'online' event
handleOnline ==
    /\ SyncNow([offline EXCEPT !.isOnline = TRUE])
    /\ addedOffline' = {}
    /\ QueueCall("handleOnline")
    /\ UNCHANGED <<nextId, syncing>>

\* handleOffline: the 'offline' event
handleOffline ==
    /\ offline' = [offline EXCEPT !.isOnline = FALSE]
    /\ QueueCall("handleOffline")
    /\ UNCHANGED <<retryTimeouts, timers, nextId, addedOffline, syncing,
                   offlineSaved>>

\* The setInterval(..., 30000) callback of startPeriodicSync
PeriodicSync ==
    /\ SyncNow(offline)
    /\ QueueCall("periodicSync")
    /\ UNCHANGED <<nextId, addedOffline, syncing>>

\* clearTimeout of the handles in `handles`
ClearTimeouts(handles) == {t \in timers : t.handle \notin handles}

\* clearPending()
clearPending ==
    LET newState == [offline EXCEPT !.pendingActions = <<>>]
    IN  /\ timers' = ClearTimeouts({retryTimeouts[i] : i \in DOMAIN retryTimeouts})
        /\ retryTimeouts' = [i \in {} |-> 0]
        /\ offline' = newState
        /\ offlineSaved' = saveOfflineState(newState)
        /\ addedOffline' = {}
        /\ QueueCall("clearPending")
        /\ UNCHANGED <<nextId, syncing>>

\* removePendingAction(actionId)
removePendingAction(actionId) ==
    LET tracked == actionId \in DOMAIN retryTimeouts
        newState == [offline EXCEPT
                       !.pendingActions = WithoutIds(@, {actionId})]
    IN  /\ timers' = IF tracked THEN ClearTimeouts({retryTimeouts[actionId]})
                      ELSE timers
        /\ retryTimeouts' = [i \in DOMAIN retryTimeouts \ {actionId} |->
                                 retryTimeouts[i]]
        /\ offline' = newState
        /\ offlineSaved' = saveOfflineState(newState)
        /\ addedOffline' = {}
        /\ QueueCall("removePendingAction")
        /\ UNCHANGED <<nextId, syncing>>

\* setOffline(offline)
setOffline(off) ==
    /\ offline' = [offline EXCEPT !.isOnline = ~off]
    /\ addedOffline' = IF off THEN addedOffline ELSE {}
    /\ QueueCall("setOffline")
    /\ UNCHANGED <<retryTimeouts, timers, nextId, syncing, offlineSaved>>

-----------------------------------------------------------------------------
(* The offline queue under its callers, its timers and the browser's events. *)
(* Timer callbacks and events are tasks: none runs while a sync() awaits its *)
(* results, but the caller of sync() may go on calling the store.            *)

QueueInit ==
    /\ QueueIdle!2 /\ QueueIdle!3 /\ QueueIdle!4 /\ QueueIdle!5
    /\ QueueIdle!6 /\ QueueIdle!7
    /\ \E onLine \in BOOLEAN :
          offline = [isOnline |-> onLine, pendingActions |-> <<>>]
    /\ SessionIdle /\ maxHistorySize = 1
    /\ StoreEmpty
    /\ op = "create" /\ ret = Void /\ calls = 0
    /\ ScorerIdle /\ ErrorsIdle /\ ResultsIdle /\ PreferencesIdle /\ TimerIdle

QueueNext ==
    \/ \E type \in ActionTypes : nextId <= MaxActions /\ addPendingAction(type)
    \/ \E t \in timers : syncing = NoSync /\ ImmediateTimer(t)
    \/ \E t \in timers : syncing = NoSync /\ RetryTimer(t)
    \/ syncing = NoSync /\ Cardinality(timers) < MaxTimers /\ sync
    \/ SyncResume
    \/ syncing = NoSync /\ Cardinality(timers) < MaxTimers /\ handleOnline
    \/ syncing = NoSync /\ handleOffline
    \/ syncing = NoSync /\ Cardinality(timers) < MaxTimers /\ PeriodicSync
    \/ clearPending
    \/ \E actionId \in 1..MaxActions : removePendingAction(actionId)
    \/ \E off \in BOOLEAN : setOffline(off)

SpecQueue == QueueInit /\ [][QueueNext]_vars

\* C8: an action added with addPendingAction while isOnline is false stays
\* in pendingActions for as long as the system does not come online and
\* neither clearPending nor removePendingAction is called.
C8_OfflineActionStaysPending == addedOffline \subseteq PendingIds(offline)

Exhausted(a) == a.retryCount >= MaxRetries
\* C9: the retries of an action whose processing keeps failing are armed
\* with delays of 1s, 2s and 4s in that order (the retry armed at retryCount
\* 0, 1, 2), none is armed after the last of them has failed, and no retry
\* timer entry stays registered for the id of the action then.
C9_RetriesThenAbandoned ==
    /\ \A t \in timers :
           t.kind = "retry" =>
               /\ t.action.retryCount < MaxRetries
               /\ t.delay = <<1000, 2000, 4000>>[t.action.retryCount + 1]
    /\ \A i \in 1..Len(offline.pendingActions) :
           LET a == offline.pendingActions[i]
           IN  Exhausted(a) => a.id \notin DOMAIN retryTimeouts

-----------------------------------------------------------------------------
(* QuizScorer                                                                *)

\* Option ids in the order of their code units
OptionOrder == <<"A", "B">>
Rank(option) == CHOOSE i \in 1..Len(OptionOrder) : OptionOrder[i] = option

RECURSIVE Insert(_, _)
Insert(sorted, x) ==
    IF sorted = <<>> THEN <<x>>
    ELSE IF Rank(x) < Rank(Head(sorted)) THEN <<x>> \o sorted
    ELSE <<Head(sorted)>> \o Insert(Tail(sorted), x)

RECURSIVE Sorted(_)
\* [...array].sort()
Sorted(array) ==
    IF array = <<>> THEN <<>>
    ELSE Insert(Sorted(SubSeq(array, 1, Len(array) - 1)), array[Len(array)])

\* isAnswerCorrect(question, userAnswers)
isAnswerCorrect(question, userAnswers) ==
    LET sortedUserAnswers == Sorted(userAnswers)
        sortedCorrectAnswers == Sorted(question.correctAnswers)
    IN  /\ Len(userAnswers) # 0
        /\ Len(sortedUserAnswers) = Len(sortedCorrectAnswers)
        /\ \A index \in 1..Len(sortedUserAnswers) :
               sortedUserAnswers[index] = sortedCorrectAnswers[index]

\* calculateResult with two separate ifs in place of its if / else if / else
calculateResult_NoElse(questions, answers) ==
    LET userAnswers(i) == AnswerOf(answers, questions[i].id)
        isCorrect(i) == isAnswerCorrect(questions[i], userAnswers(i))
        indices == 1..Len(questions)
        skippedCount == Cardinality({i \in indices : Len(userAnswers(i)) = 0})
        correctCount == Cardinality({i \in indices : isCorrect(i)})
        incorrectCount == Cardinality({i \in indices : ~isCorrect(i)})
        totalQuestions == Len(questions)
    IN  [score |-> correctCount,
         percentage |-> IF totalQuestions > 0
                        THEN [num |-> correctCount * 100, den |-> totalQuestions]
                        ELSE [num |-> 0, den |-> 1],
         totalQuestions |-> totalQuestions,
         correctAnswers |-> correctCount,
         incorrectAnswers |-> incorrectCount,
         skippedAnswers |-> skippedCount,
         questionResults |->
             [i \in indices |->
                 [questionId |-> questions[i].id,
                  userAnswers |-> userAnswers(i),
                  correctAnswers |-> questions[i].correctAnswers,
                  isCorrect |-> isCorrect(i)]]]

\* calculateResult(examId, examTitle, questions, answers, startTime, endTime):
\* the counts of the result, each question of the list counted once by the
\* if / else if / else of the loop; percentage (correctCount /
\* totalQuestions) * 100 is kept as the fraction num / den
calculateResult(questions, answers) ==
    LET userAnswers(i) == AnswerOf(answers, questions[i].id)
        isCorrect(i) == isAnswerCorrect(questions[i], userAnswers(i))
        indices == 1..Len(questions)
        skippedCount == Cardinality({i \in indices : Len(userAnswers(i)) = 0})
        correctCount ==
            Cardinality({i \in indices :
                            Len(userAnswers(i)) # 0 /\ isCorrect(i)})
        incorrectCount ==
            Cardinality({i \in indices :
                            Len(userAnswers(i)) # 0 /\ ~isCorrect(i)})
        totalQuestions == Len(questions)
    IN  [score |-> correctCount,
         percentage |-> IF totalQuestions > 0
                        THEN [num |-> correctCount * 100, den |-> totalQuestions]
                        ELSE [num |-> 0, den |-> 1],
         totalQuestions |-> totalQuestions,
         correctAnswers |-> correctCount,
         incorrectAnswers |-> incorrectCount,
         skippedAnswers |-> skippedCount,
         questionResults |->
             [i \in indices |->
                 [questionId |-> questions[i].id,
                  userAnswers |-> userAnswers(i),
                  correctAnswers |-> questions[i].correctAnswers,
                  isCorrect |-> isCorrect(i)]]]

\* The correct-answer lists parseQuestion builds from the lines
\* "Correct answer: A", "Correct answer: B, A" and "Correct answer: AA": one
\* id for each letter of the line, in the order of the line
ParsedCorrectAnswers == {<<"A">>, <<"B", "A">>, <<"A", "A">>}
\* The questions of the exams scored: single and multiple choice
Questions ==
    {[id |-> q, correctAnswers |-> c] : q \in QIDs, c \in ParsedCorrectAnswers}
Exams == UNION {[1..n -> Questions] : n \in 0..MaxQuestions}
\* The answers maps scored: a question has no entry, an empty selection, or
\* one or two options, or one option twice
ScoredAnswers ==
    UNION {[qs -> {<<>>, <<"A">>, <<"B">>, <<"A", "B">>, <<"A", "A">>}] :
              qs \in SUBSET QIDs}

ScoreInit ==
    /\ exam \in Exams
    /\ examAnswers \in ScoredAnswers
    /\ result = Void
    /\ op = "create" /\ ret = Void /\ calls = 0
    /\ SessionIdle /\ maxHistorySize = 1
    /\ StoreEmpty
    /\ QueueIdle
    /\ ErrorsIdle /\ ResultsIdle /\ PreferencesIdle /\ TimerIdle

Calculate ==
    /\ result = Void
    /\ result' = calculateResult(exam, examAnswers)
    /\ op' = "calculateResult"
    /\ UNCHANGED <<exam, examAnswers, ret, calls, sessionVars, storeVars,
                   storeCallVars, queueVars, errorVars, resultVars, prefVars, timerVars>>

ScoreNext == Calculate

SpecScore == ScoreInit /\ [][ScoreNext]_vars

\* C10: for every exam, of any number of questions including none, and
\* every answers map, the result of calculateResult has correctAnswers +
\* incorrectAnswers + skippedAnswers = totalQuestions and 0 <= percentage
\* <= 100, and percentage = 0 when totalQuestions = 0.
C10_CountsAndPercentage ==
    result # Void =>
        /\ result.correctAnswers + result.incorrectAnswers
               + result.skippedAnswers = result.totalQuestions
        /\ result.totalQuestions = Len(exam)
        /\ 0 <= result.percentage.num
        /\ result.percentage.num <= 100 * result.percentage.den
        /\ result.totalQuestions = 0 => result.percentage.num = 0

\* An exam of two questions scored with one answered right and one skipped
C10_ScoredWitness ==
    /\ result # Void
    /\ result.totalQuestions = 2
    /\ result.correctAnswers = 1
    /\ result.skippedAnswers = 1

\* The ids of a list, as a set
IdsOf(list) == {list[i] : i \in 1..Len(list)}

\* C11: a question is judged correct exactly when the selection is not
\* empty and the selection and the correct-answer ids are identical as sets.
C11_CorrectIffSameSet ==
    result # Void =>
        \A i \in DOMAIN result.questionResults :
            LET r == result.questionResults[i]
            IN  r.isCorrect <=>
                    /\ Len(r.userAnswers) # 0
                    /\ IdsOf(r.userAnswers) = IdsOf(r.correctAnswers)

-----------------------------------------------------------------------------
(* The end of a session                                                      *)

\* A caller that starts sessions, answers, submits and clears, with the
\* auto-save interval firing between its calls
EndNext ==
    \/ CallInit(MaxCalls)
    \/ CallAnswerQuestion(MaxCalls)
    \/ CallSubmit(MaxCalls)
    \/ CallClear(MaxCalls)
    \/ AutoSave

SpecEnd == Init /\ [][EndNext]_vars

\* C12: submit() on an active session leaves submitted true, endTime set,
\* no record under the session key of the exam and no auto-save timer; the
\* timer is armed again by init only, and an auto-save tick writes nothing
\* unless a timer is armed and the session is not submitted.
C12_SubmitEndsSession ==
    [][/\ (Active(quiz) /\ op' = "submit")
            => /\ quiz'.submitted
               /\ quiz'.endTime # NoTime
               /\ localStorage'[StateKey(quiz.examId)] = Absent
               /\ autoSaveTimer' = NoTimer
       /\ (autoSaveTimer = NoTimer /\ op' # "init")
            => autoSaveTimer' = NoTimer
       /\ (op' = "autoSave" /\ localStorage' # localStorage)
            => autoSaveTimer # NoTimer /\ ~quiz.submitted]_vars

\* A session submitted after an answer was given: init, answerQuestion,
\* submit
C12_SubmittedWitness ==
    /\ op = "submit" /\ calls = 3
    /\ quiz.examId = TheExam /\ quiz.submitted
    /\ quiz.answers # EmptyMap
    /\ quiz.endTime # NoTime
    /\ autoSaveTimer = NoTimer
    /\ localStorage[StateKey(TheExam)] = Absent

\* C13: submit() on a session that is already submitted leaves endTime,
\* timeElapsed and the totals of the analytics as the first submit() set
\* them.
C13_SecondSubmitNoOp ==
    [][(quiz.examId # "" /\ quiz.submitted /\ op' = "submit")
         => /\ quiz'.endTime = quiz.endTime
            /\ quiz'.timeElapsed = quiz.timeElapsed
            /\ analytics'.totalTimeSpent = analytics.totalTimeSpent
            /\ analytics'.averageQuestionTime = analytics.averageQuestionTime]_vars

-----------------------------------------------------------------------------
(* The start of a session over a store as found: init, then answers,         *)
(* a submit and further inits.                                               *)

\* Number of calls made on a store created over a found localStorage.
MaxResumeCalls == 3

\* Session records found under the key of the exam: one in progress, with
\* an answer, a flag and a position, and the same one submitted
aStoredSession ==
    [defaultState EXCEPT !.examId = TheExam, !.mode = "exam",
                         !.currentQuestionIndex = 1,
                         !.answers = [q \in {"q2"} |-> <<"B">>],
                         !.flaggedQuestions = {"q1"}]
aSubmittedSession ==
    [aStoredSession EXCEPT !.submitted = TRUE, !.endTime = 0,
                           !.timeElapsed = 0]
ResumeFoundValues ==
    {Absent, Garbage, Serialize(aStoredSession), Serialize(aSubmittedSession)}
ResumeFoundBackupValues == {Absent, Serialize(anOldState)}

ResumeInit ==
    /\ \E main \in ResumeFoundValues, backup \in ResumeFoundBackupValues :
          localStorage =
              [k \in Keys |->
                  IF k = StateKey(TheExam) THEN main
                  ELSE IF k = BackupKey(StateKey(TheExam)) THEN backup
                  ELSE Absent]
    /\ emitted = <<>>
    /\ args = NoArgs
    /\ before = localStorage
    /\ op = "create" /\ ret = Void /\ calls = 0
    /\ maxHistorySize \in 1..MaxConfigHistory
    /\ SessionIdle /\ QueueIdle /\ ScorerIdle /\ ErrorsIdle /\ ResultsIdle /\ PreferencesIdle /\ TimerIdle

ResumeNext ==
    \/ CallInit(MaxResumeCalls)
    \/ calls > 0 /\ CallAnswerQuestion(MaxResumeCalls)
    \/ calls > 0 /\ CallSubmit(MaxResumeCalls)

SpecResume == ResumeInit /\ [][ResumeNext]_vars

\* The record under the key of the exam is an unsubmitted session record
HoldsUnsubmitted(ls) ==
    LET rec == ls[StateKey(TheExam)]
    IN  rec.kind = "state" /\ rec.examId = TheExam /\ ~rec.submitted
\* No record, or a record with submitted = true
HoldsNoneOrSubmitted(ls) ==
    LET rec == ls[StateKey(TheExam)]
    IN  rec = Absent \/ (rec.kind = "state" /\ rec.submitted)
Resumes(ls, state) ==
    LET rec == ls[StateKey(TheExam)]
    IN  /\ state.answers = MapOf(rec.answers)
        /\ state.flaggedQuestions = SetOf(rec.flaggedQuestions)
        /\ state.currentQuestionIndex = rec.currentQuestionIndex
        /\ ~state.submitted
Fresh(state) ==
    /\ state.examId = TheExam
    /\ state.currentQuestionIndex = 0
    /\ state.answers = EmptyMap
    /\ state.flaggedQuestions = {}
    /\ ~state.submitted
    /\ state.mode \in SessionModes
WriteFailed(errs) ==
    \E i \in 1..Len(errs) : errs[i] \in {"quota_exceeded", "permission_denied"}

\* C14 as stated: init resumes the stored session when the store holds an
\* unsubmitted record for exam.id; with no record or a submitted one it
\* creates a fresh session of the given mode, and the record under the key
\* is then that fresh session.
C14_InitResumesOrPersistsFresh ==
    [][op' = "init" =>
         /\ HoldsUnsubmitted(localStorage) => Resumes(localStorage, quiz')
         /\ HoldsNoneOrSubmitted(localStorage)
              => /\ Fresh(quiz')
                 /\ localStorage'[StateKey(TheExam)] = Serialize(quiz')]_vars

\* C14, amended: the same, the fresh session being the record under the key
\* unless the write failed and a storage error was emitted.
C14_InitResumesOrSavesFresh ==
    [][op' = "init" =>
         /\ HoldsUnsubmitted(localStorage) => Resumes(localStorage, quiz')
         /\ HoldsNoneOrSubmitted(localStorage)
              => /\ Fresh(quiz')
                 /\ \/ localStorage'[StateKey(TheExam)] = Serialize(quiz')
                    \/ WriteFailed(emitted')]_vars

\* init has resumed the session found in progress in the store
C14_ResumedWitness ==
    /\ op = "init" /\ calls = 1
    /\ quiz.examId = TheExam /\ quiz.mode = "exam"
    /\ quiz.answers = aStoredSession.answers
    /\ quiz.flaggedQuestions = {"q1"}
    /\ quiz.currentQuestionIndex = 1
    /\ localStorage[StateKey(TheExam)] = Serialize(aStoredSession)

-----------------------------------------------------------------------------
(* StorageManager: export and import of the whole store                      *)

\* The keys of localStorage in the order `for (const key in localStorage)`
\* and Object.entries(backup.data) enumerate them
KeyOrder ==
    <<StateKey(""), BackupKey(StateKey("")), StateKey(TheExam),
      BackupKey(StateKey(TheExam)), ResultsKey, BackupKey(ResultsKey),
      PreferencesKey>>
Cleared == [k \in Keys |-> Absent]

\* The blobs handed to restoreFullBackup, by what JSON.parse makes of them:
\* a text that does not parse, or an object with a version (falsy or not)
\* and a data object (missing or not); data[k] = Absent for a key the data
\* object does not have
GarbageBlob == [kind |-> "garbage"]
Blob(version, hasData, data) ==
    [kind |-> "backup", version |-> version, hasData |-> hasData, data |-> data]

\* createFullBackup(): version 1 and every own key of localStorage with its
\* value
createFullBackup(ls) == Blob(1, TRUE, ls)

\* The entries of backup.data, in order
EntriesOf(data) == SelectSeq(KeyOrder, LAMBDA k : data[k] # Absent)

\* restoreFullBackup(backupData); throwsAt is the index of the setItem call
\* that throws, 0 when none does
restoreFullBackup(ls, blob, throwsAt) ==
    IF blob.kind = "garbage" \/ blob.version = 0 \/ ~blob.hasData
    THEN [ls |-> ls, ok |-> FALSE, errs |-> <<"corrupted_data">>]
    ELSE LET entries == EntriesOf(blob.data)
             written(n) ==
                 [k \in Keys |->
                     IF \E i \in 1..n : entries[i] = k THEN blob.data[k]
                     ELSE Cleared[k]]
         IN  IF throwsAt \in 1..Len(entries)
             THEN [ls |-> written(throwsAt - 1), ok |-> FALSE,
                   errs |-> <<"corrupted_data">>]
             ELSE [ls |-> written(Len(entries)), ok |-> TRUE, errs |-> <<>>]

\* The stores a blob was exported from
ExportedStores ==
    {[k \in Keys |->
         IF k = StateKey(TheExam) THEN main
         ELSE IF k = BackupKey(StateKey(TheExam)) THEN backup
         ELSE Absent] :
        main \in {Absent, Serialize(anOldState)},
        backup \in {Absent, Serialize(aStoredSession)}}
RestoredBlobs ==
    {GarbageBlob} \cup
    {Blob(0, TRUE, ls) : ls \in ExportedStores} \cup
    {Blob(1, FALSE, Cleared)} \cup
    {createFullBackup(ls) : ls \in ExportedStores}

BackupInit == StoreInit

StoreCreateFullBackup ==
    /\ StoreCall("createFullBackup")
    /\ args' = NoArgs
    /\ ret' = [blob |-> createFullBackup(localStorage)]
    /\ emitted' = <<>>
    /\ UNCHANGED localStorage

StoreRestoreFullBackup ==
    \E blob \in RestoredBlobs :
        \E throwsAt \in 0..(IF blob.kind = "backup"
                             THEN Len(EntriesOf(blob.data)) ELSE 0) :
            LET restored == restoreFullBackup(localStorage, blob, throwsAt)
            IN  /\ StoreCall("restoreFullBackup")
                /\ args' = [blob |-> blob]
                /\ localStorage' = restored.ls
                /\ emitted' = restored.errs
                /\ ret' = Returned(restored.ok)

BackupNext ==
    \/ StoreCreateFullBackup
    \/ StoreRestoreFullBackup
    \/ StoreClearQuizState

SpecBackup == BackupInit /\ [][BackupNext]_vars

\* C15: when restoreFullBackup(blob) returns false the content of the store
\* is the content before the call, and when it returns true the content is
\* exactly the data of the blob.
C15_RestoreAllOrNothing ==
    op = "restoreFullBackup" =>
        /\ ret = Returned(FALSE) => localStorage = before
        /\ ret = Returned(TRUE) => localStorage = args.blob.data

-----------------------------------------------------------------------------
(* StorageManager: error observers                                           *)

\* The callbacks handed to onError, by what they do when called: return,
\* throw, or call the unsubscribe function onError gave them and return
Callbacks == {"logs", "throws", "once"}
Throws(callback) == callback = "throws"
UnsubscribesItself(callback) == callback = "once"

\* onError(callback): errorCallbacks.push(callback)
onError(list, callback) == Append(list, callback)

\* The function onError returns: splice(index, 1) at indexOf(callback), when
\* that is > -1
Unsubscribe(list, callback) ==
    IF \E i \in 1..Len(list) : list[i] = callback
    THEN LET index == CHOOSE i \in 1..Len(list) :
                          /\ list[i] = callback
                          /\ \A j \in 1..(i - 1) : list[j] # callback
         IN  SubSeq(list, 1, index - 1) \o SubSeq(list, index + 1, Len(list))
    ELSE list

NotInvoked == [c \in Callbacks |-> 0]

RECURSIVE ForEach(_, _, _, _)
\* errorCallbacks.forEach(callback => { try { callback(error) } catch ... })
\* from index k on: forEach visits the indices below the length the array
\* had when it started, skips an index the array no longer has, and reads
\* the element the array holds at the index when it gets there.  What a
\* callback throws is caught.
ForEach(list, k, len, invoked) ==
    IF k > len THEN [list |-> list, invoked |-> invoked, threw |-> FALSE]
    ELSE IF k > Len(list) THEN ForEach(list, k + 1, len, invoked)
    ELSE LET callback == list[k]
             after == IF UnsubscribesItself(callback)
                      THEN Unsubscribe(list, callback) ELSE list
         IN  ForEach(after, k + 1, len,
                     [invoked EXCEPT ![callback] = @ + 1])

\* emitError(error)
emitError(list) == ForEach(list, 1, Len(list), NotInvoked)

ErrorsInit == StoreInit

ErrorsCall(name) ==
    /\ op' = name
    /\ before' = localStorage
    /\ UNCHANGED <<calls, sessionVars, queueVars, scoreVars, resultVars, prefVars, timerVars>>

ErrorsOnError ==
    \E callback \in Callbacks :
        /\ \A i \in 1..Len(errorCallbacks) : errorCallbacks[i] # callback
        /\ ErrorsCall("onError")
        /\ errorCallbacks' = onError(errorCallbacks, callback)
        /\ args' = [callback |-> callback]
        /\ ret' = Void
        /\ UNCHANGED storeVars

\* The function onError returned for a callback is called: while the
\* callback is registered, or once more directly after it was called
ErrorsUnsubscribe ==
    \E callback \in Callbacks :
        /\ \/ \E i \in 1..Len(errorCallbacks) : errorCallbacks[i] = callback
           \/ op = "unsubscribe" /\ args.callback = callback
        /\ ErrorsCall("unsubscribe")
        /\ errorCallbacks' = Unsubscribe(errorCallbacks, callback)
        /\ args' = [callback |-> callback]
        /\ ret' = Void
        /\ UNCHANGED storeVars

\* loadQuizState(examId) with the observers registered: it emits at most one
\* error; args.callbacks is the list of observers when the call starts
ErrorsLoadQuizState ==
    \E examId \in ExamIds :
        LET loaded == loadQuizState(localStorage, examId)
            emit == IF loaded.errs # <<>> THEN emitError(errorCallbacks)
                    ELSE [list |-> errorCallbacks, invoked |-> NotInvoked,
                          threw |-> FALSE]
        IN  /\ ErrorsCall("loadQuizState")
            /\ args' = [examId |-> examId, callbacks |-> errorCallbacks]
            /\ emitted' = loaded.errs
            /\ errorCallbacks' = emit.list
            /\ ret' = [state |-> loaded.state, invoked |-> emit.invoked,
                       threw |-> emit.threw]
            /\ UNCHANGED localStorage

ErrorsNext ==
    \/ ErrorsOnError
    \/ ErrorsUnsubscribe
    \/ ErrorsLoadQuizState

SpecErrors == ErrorsInit /\ [][ErrorsNext]_vars

\* C16: when an operation emits a StorageError, every callback that is
\* registered and stays registered is invoked exactly once with it, none
\* is invoked more than once, and the operation does not get an exception
\* from the emit.
C16_EveryObserverOnce ==
    (op = "loadQuizState" /\ emitted # <<>>) =>
        /\ ~ret.threw
        /\ \A i \in 1..Len(args.callbacks) :
               ret.invoked[args.callbacks[i]] = 1

-----------------------------------------------------------------------------
(* The offline queue: its retry timers and its syncs                         *)

\* The armed retry timers of an action id
RetryTimersOf(id) == {t \in timers : t.kind = "retry" /\ t.action.id = id}

\* C17: in every reachable state of the offline queue at most one retry
\* timer is armed for any action id.
C17_OneRetryTimerPerAction ==
    \A id \in 1..MaxActions : Cardinality(RetryTimersOf(id)) <= 1

\* The ids of the actions a sync in flight processed with the given outcome
Processed(ok) ==
    {syncing.actions[i].id :
        i \in {j \in 1..Len(syncing.actions) : syncing.results[j] = ok}}

\* C18: whatever the caller does while the results of a sync() are awaited,
\* the sync removes from pendingActions exactly the actions whose processing
\* succeeded, keeps every other action, and a retry timer is armed for each
\* action whose processing failed and that has not used up its retries.
C18_SyncRemovesExactlySucceeded ==
    [][op' = "syncResume" =>
         /\ PendingIds(offline) \ PendingIds(offline')
                = PendingIds(offline) \cap Processed(TRUE)
         /\ \A i \in 1..Len(offline.pendingActions) :
                LET a == offline.pendingActions[i]
                IN  (a.id \in Processed(FALSE) /\ a.retryCount < MaxRetries)
                        => \E t \in timers' :
                               t.kind = "retry" /\ t.action.id = a.id]_vars

\* The event loop runs every armed timer, the interval of startPeriodicSync
\* and the continuation of an awaited promise
TimersFire ==
    \/ \E t \in timers : syncing = NoSync /\ ImmediateTimer(t)
    \/ \E t \in timers : syncing = NoSync /\ RetryTimer(t)
IntervalFires ==
    syncing = NoSync /\ Cardinality(timers) < MaxTimers /\ PeriodicSync

\* The queue under a caller that adds actions and syncs, and never takes an
\* action back
DeliveryNext ==
    \/ \E type \in ActionTypes : nextId <= MaxActions /\ addPendingAction(type)
    \/ \E t \in timers : syncing = NoSync /\ ImmediateTimer(t)
    \/ \E t \in timers : syncing = NoSync /\ RetryTimer(t)
    \/ syncing = NoSync /\ Cardinality(timers) < MaxTimers /\ sync
    \/ SyncResume
    \/ syncing = NoSync /\ Cardinality(timers) < MaxTimers /\ handleOnline
    \/ syncing = NoSync /\ handleOffline
    \/ syncing = NoSync /\ Cardinality(timers) < MaxTimers /\ PeriodicSync
    \/ \E off \in BOOLEAN : setOffline(off)

SpecDelivery ==
    /\ QueueInit /\ [][DeliveryNext]_vars
    /\ WF_vars(TimersFire)
    /\ WF_vars(IntervalFires)
    /\ WF_vars(SyncResume)

\* The action with this id is pending and processPendingAction succeeds on it
PendingDeliverable(id) ==
    \E i \in 1..Len(offline.pendingActions) :
        /\ offline.pendingActions[i].id = id
        /\ processPendingAction(offline.pendingActions[i])

AllSucceeded(results) == \A i \in 1..Len(results) : results[i]

\* C19: if the system goes online and stays online, every pending action
\* whose processing succeeds is eventually removed from pendingActions; and
\* a sync() that is awaited while online, all processing succeeding, leaves
\* pendingActions empty.
C19_EventualDelivery ==
    /\ \A id \in 1..MaxActions :
           (<>[]offline.isOnline)
               => (PendingDeliverable(id) ~> (id \notin PendingIds(offline)))
    /\ [][(op = "sync" /\ op' = "syncResume" /\ AllSucceeded(syncing.results))
            => offline'.pendingActions = <<>>]_vars

\* An action queued while offline (no timer was ever armed for it) has been
\* delivered by an awaited sync()
C19_DeliveredWitness ==
    /\ op = "syncResume"
    /\ nextId = 2
    /\ timers = {} /\ DOMAIN retryTimeouts = {}
    /\ offline.isOnline
    /\ offline.pendingActions = <<>>

-----------------------------------------------------------------------------
(* The results store and the keys of the other record types                  *)

\* Number of results saveQuizResult keeps: results.slice(-50)
RecentResults == 50

\* The last n elements of a list: list.slice(-n)
LastOf(list, n) ==
    IF Len(list) <= n THEN list ELSE SubSeq(list, Len(list) - n + 1, Len(list))

\* saveQuizResult(result); what its setItem throws is caught
saveQuizResult(ls, res, throws) ==
    LET recentResults == LastOf(Append(getQuizResults(ls), res), RecentResults)
    IN  IF throws THEN ls ELSE SetItem(ls, ResultsKey, Results(recentResults))

\* clearAllData(): removes every key that starts with QUIZ_STATE_PREFIX, the
\* results and the preferences
clearAllData(ls) ==
    [k \in Keys |->
        IF StartsWithStatePrefix(k) \/ k = ResultsKey \/ k = PreferencesKey
        THEN Absent ELSE ls[k]]

RECURSIVE SaveAll(_, _, _)
\* filtered.forEach(result => StorageManager.saveQuizResult(result))
SaveAll(ls, list, throws) ==
    IF list = <<>> THEN ls
    ELSE SaveAll(saveQuizResult(ls, Head(list), throws), Tail(list), throws)

\* result.startTime.getTime().toString()
TimeToString(t) == <<"0", "1", "2">>[t + 1]
ResultIds == {TimeToString(t) : t \in Times}

\* The results of the history: an exam and the time it was started
StoredResults == [examId : {TheExam, "e2"}, startTime : Times]
ResultLists ==
    {<<>>} \cup {<<r>> : r \in StoredResults}
           \cup {l \in {<<r1, r2>> : r1 \in StoredResults, r2 \in StoredResults} :
                    l[1] # l[2]}
storedPreferences == [kind |-> "preferences", theme |-> "dark"]

ResultsInit ==
    /\ \E main \in {Absent, Serialize(aStoredSession)},
          backup \in {Absent, Serialize(anOldState)},
          prefsFound \in {Absent, storedPreferences},
          list \in ResultLists :
          localStorage =
              [k \in Keys |->
                  IF k = StateKey(TheExam) THEN main
                  ELSE IF k = BackupKey(StateKey(TheExam)) THEN backup
                  ELSE IF k = PreferencesKey THEN prefsFound
                  ELSE IF k = ResultsKey /\ list # <<>> THEN Results(list)
                  ELSE Absent]
    /\ emitted = <<>>
    /\ args = NoArgs
    /\ before = localStorage
    /\ op = "create" /\ ret = Void /\ calls = 0
    /\ maxHistorySize = 1
    /\ SessionIdle /\ QueueIdle /\ ScorerIdle /\ ErrorsIdle /\ ResultsIdle /\ PreferencesIdle /\ TimerIdle

ResultsCall(name) ==
    /\ op' = name
    /\ before' = localStorage
    /\ ret' = Void
    /\ emitted' = <<>>
    /\ UNCHANGED <<calls, sessionVars, queueVars, scoreVars, errorVars, prefVars, timerVars>>

\* results.load()
ResultsLoad ==
    /\ ResultsCall("results.load")
    /\ resultsStore' = getQuizResults(localStorage)
    /\ resultErrors' = SelectSeq(resultErrors, LAMBDA e : e # "corrupted_data")
    /\ args' = NoArgs
    /\ UNCHANGED localStorage

\* results.delete(examId, resultId)
ResultsDelete ==
    \E examId \in {TheExam, "e2"}, resultId \in ResultIds, throws \in BOOLEAN :
        LET filtered ==
                SelectSeq(resultsStore,
                          LAMBDA r : ~(r.examId = examId
                                         /\ TimeToString(r.startTime) = resultId))
        IN  /\ ResultsCall("results.delete")
            /\ args' = [examId |-> examId, resultId |-> resultId]
            /\ localStorage' = SaveAll(clearAllData(localStorage), filtered, throws)
            /\ resultsStore' = filtered
            /\ UNCHANGED resultErrors

ResultsNext ==
    \/ ResultsLoad
    \/ ResultsDelete

SpecResults == ResultsInit /\ [][ResultsNext]_vars

\* C20: results.delete(examId, resultId) leaves every quiz-state record and
\* the stored user preferences as they were before the call.
C20_DeleteKeepsOtherRecords ==
    op = "results.delete" =>
        \A k \in Keys :
            (StartsWithStatePrefix(k) \/ k = PreferencesKey)
                => localStorage[k] = before[k]

-----------------------------------------------------------------------------
(* The offline queue: clearPending                                           *)

\* C21: directly after clearPending() the pending queue is empty, no retry
\* timer is armed for any action, and no timer is left armed whose callback
\* processes or re-schedules an action that was in the queue when
\* clearPending() was called.
C21_ClearPendingStopsEverything ==
    [][op' = "clearPending" =>
         /\ offline'.pendingActions = <<>>
         /\ \A t \in timers' : t.kind # "retry"
         /\ \A t \in timers' : t.action.id \notin PendingIds(offline)]_vars

-----------------------------------------------------------------------------
(* The session store: the bounds of its history and of its navigation        *)

\* C22: for every maxHistorySize >= 1 and every sequence of answerQuestion
\* calls, the answer-history log and the snapshot list each hold at most
\* maxHistorySize entries.
C22_HistoryBounded ==
    /\ Len(answerHistory) <= maxHistorySize
    /\ Len(stateSnapshots) <= maxHistorySize

\* C23: after init and any sequence of answerQuestion, undoAnswer and
\* redoAnswer calls, 0 <= currentSnapshotIndex <= Len(stateSnapshots) - 1.
C23_CursorInBounds ==
    calls > 0 =>
        /\ 0 <= currentSnapshotIndex
        /\ currentSnapshotIndex <= Len(stateSnapshots) - 1

InBounds(index) == index \in 0..(questionCount - 1)
Navigations == {"goToQuestion", "nextQuestion", "previousQuestion"}

\* C24: nextQuestion() and previousQuestion() on an initialised session
\* whose index is within [0, questionCount) leave it within [0,
\* questionCount): nextQuestion() on the last question and previousQuestion()
\* on the first leave the index where it is.
C24_StepStaysInBounds ==
    [][(/\ quiz.examId # ""
        /\ InBounds(quiz.currentQuestionIndex)
        /\ op' \in {"nextQuestion", "previousQuestion"})
         => InBounds(quiz'.currentQuestionIndex)]_vars

\* C25: a navigation operation increments questionsRevisited by one exactly
\* when the index after it is less than the index before it, and leaves the
\* counter unchanged otherwise.
C25_RevisitedIffBackwards ==
    [][(quiz.examId # "" /\ op' \in Navigations) =>
         analytics'.questionsRevisited =
             analytics.questionsRevisited
                 + (IF quiz'.currentQuestionIndex < quiz.currentQuestionIndex
                    THEN 1 ELSE 0)]_vars

\* C26: after a saveQuizState that returns true on a key that held a value,
\* the backup key holds the value the key had before the call.
C26_BackupHoldsPriorValue ==
    (/\ op = "saveQuizState" /\ ret = Returned(TRUE)
     /\ Truthy(before[StateKey(args.examId)]))
        => localStorage[BackupKey(StateKey(args.examId))]
               = before[StateKey(args.examId)]

-----------------------------------------------------------------------------
(* The preferences store: createPreferencesStore()                           *)

\* The keys and values passed to updatePreference: the theme, a boolean
\* preference and a key that is no preference; a theme, a text that is no
\* theme, and a boolean
PreferenceKeys == {"theme", "showTimer", "fontSize"}
PreferenceValues == {Str("dark"), Str("blue"), Bool(FALSE)}
Themes == {"light", "dark", "system"}

\* validatePreference(key, value)
validatePreference(key, value) ==
    CASE key = "theme" -> value.type = "string" /\ value.text \in Themes
      [] key = "showTimer" -> value.type = "boolean"
      [] OTHER -> FALSE

\* JSON.stringify(preferences)
SerializePreferences(prefs) ==
    [kind |-> "preferences", theme |-> prefs.theme.text,
     showTimer |-> prefs.showTimer.text]

\* saveUserPreferences(preferences): a void method; what setItem throws is
\* caught
saveUserPreferences(ls, prefs, throws) ==
    [ls |-> IF throws THEN ls
            ELSE SetItem(ls, PreferencesKey, SerializePreferences(prefs)),
     ret |-> Undefined]

\* The truthiness of what a StorageManager method returned
TruthyReturn(value) == value \notin {Undefined, FALSE}

\* getUserPreferences(): the defaults, overlaid with the stored object when
\* one is stored and parses
getUserPreferences(ls) ==
    LET stored == ls[PreferencesKey]
    IN  IF Truthy(stored) /\ stored.kind = "preferences"
        THEN [theme |-> Str(stored.theme),
              showTimer |-> IF "showTimer" \in DOMAIN stored
                            THEN Bool(stored.showTimer = "true")
                            ELSE defaultPreferences.showTimer]
        ELSE defaultPreferences

\* [...errs.slice(-4), error]
WithError(errs, type, message) ==
    Append(Slice(errs, -4), [type |-> type, message |-> message])

\* error.message.includes('preferences')
MentionsPreferences(error) == error.message = "Failed to load preferences"

PrefCall(name) ==
    /\ op' = name
    /\ before' = localStorage
    /\ emitted' = <<>>
    /\ UNCHANGED <<calls, sessionVars, queueVars, scoreVars, errorVars,
                   resultVars, timerVars>>

\* load()
load ==
    LET loaded == getUserPreferences(localStorage)
        validatedPrefs ==
            [key \in DOMAIN defaultPreferences |->
                IF validatePreference(key, loaded[key]) THEN loaded[key]
                ELSE defaultPreferences[key]]
    IN  /\ PrefCall("load")
        /\ preferences' = validatedPrefs
        /\ preferenceErrors' =
               SelectSeq(preferenceErrors, LAMBDA e : ~MentionsPreferences(e))
        /\ args' = NoArgs
        /\ ret' = Void
        /\ UNCHANGED localStorage

\* updatePreference(key, value); args.threw records whether the setItem of
\* saveUserPreferences threw
updatePreference(key, value, throws) ==
    LET newPrefs == [preferences EXCEPT ![key] = value]
        saved == saveUserPreferences(localStorage, newPrefs, throws)
    IN  /\ PrefCall("updatePreference")
        /\ IF ~validatePreference(key, value)
           THEN /\ preferenceErrors' =
                       WithError(preferenceErrors, "corrupted_data",
                                 "Invalid value for preference")
                /\ args' = [key |-> key, value |-> value, threw |-> FALSE]
                /\ ret' = Returned(FALSE)
                /\ UNCHANGED <<preferences, localStorage>>
           ELSE /\ localStorage' = saved.ls
                /\ preferenceErrors' =
                       IF ~TruthyReturn(saved.ret)
                       THEN WithError(preferenceErrors, "permission_denied",
                                      "Failed to save preference")
                       ELSE preferenceErrors
                /\ preferences' = newPrefs
                /\ args' = [key |-> key, value |-> value, threw |-> throws]
                /\ ret' = Returned(TRUE)

\* reset(confirm)
reset(confirm, throws) ==
    LET saved == saveUserPreferences(localStorage, defaultPreferences, throws)
    IN  /\ PrefCall("reset")
        /\ args' = [confirm |-> confirm]
        /\ IF ~confirm
           THEN /\ ret' = Returned(FALSE)
                /\ UNCHANGED <<preferences, preferenceErrors, localStorage>>
           ELSE /\ localStorage' = saved.ls
                /\ IF TruthyReturn(saved.ret)
                   THEN /\ preferences' = defaultPreferences
                        /\ preferenceErrors' = <<>>
                        /\ ret' = Returned(TRUE)
                   ELSE /\ ret' = Returned(FALSE)
                        /\ UNCHANGED <<preferences, preferenceErrors>>

\* clearErrors()
clearErrors ==
    /\ PrefCall("clearErrors")
    /\ preferenceErrors' = <<>>
    /\ args' = NoArgs
    /\ ret' = Void
    /\ UNCHANGED <<preferences, localStorage>>

\* The store is created over a localStorage as found, and load() has run
PreferencesInit ==
    /\ \E found \in {Absent, Garbage, storedPreferences} :
          localStorage = [k \in Keys |->
                             IF k = PreferencesKey THEN found ELSE Absent]
    /\ preferences = getUserPreferences(localStorage)
    /\ preferenceErrors = <<>>
    /\ emitted = <<>>
    /\ args = NoArgs
    /\ before = localStorage
    /\ op = "create" /\ ret = Void /\ calls = 0
    /\ maxHistorySize = 1
    /\ SessionIdle /\ QueueIdle /\ ScorerIdle /\ ErrorsIdle /\ ResultsIdle /\ TimerIdle

PreferencesNext ==
    \/ load
    \/ \E key \in PreferenceKeys, value \in PreferenceValues, throws \in BOOLEAN :
           updatePreference(key, value, throws)
    \/ \E confirm \in BOOLEAN, throws \in BOOLEAN : reset(confirm, throws)
    \/ clearErrors

SpecPreferences == PreferencesInit /\ [][PreferencesNext]_vars

\* C27: updatePreference(key, value) changes the error log only when the
\* value fails validation or the storage write fails; a valid update whose
\* write succeeds leaves the error log as it was.
C27_ErrorOnlyOnFailure ==
    [][op' = "updatePreference" =>
         (preferenceErrors' # preferenceErrors
              => \/ ~validatePreference(args'.key, args'.value)
                 \/ args'.threw)]_vars

-----------------------------------------------------------------------------
(* A session and the maintenance of the store: the caller starts a session,  *)
(* answers and submits, validateAndRepair runs at any time, and the caller   *)
(* starts the exam again.                                                    *)

\* Number of calls made on the session store while the store is maintained.
MaxMaintenanceCalls == 5

MaintenanceNext ==
    \/ CallInit(MaxMaintenanceCalls)
    \/ Active(quiz) /\ CallAnswerQuestion(MaxMaintenanceCalls)
    \/ Active(quiz) /\ CallSubmit(MaxMaintenanceCalls)
    \/ StoreValidateAndRepair

SpecMaintenance == Init /\ [][MaintenanceNext]_vars

\* loadQuizState(examId) returns null or a submitted session
LoadsNoneOrSubmitted(ls) ==
    LET loaded == loadQuizState(ls, TheExam).state
    IN  loaded = NoState \/ loaded.submitted

\* C28: once the session of an exam is submitted, validateAndRepair() leaves
\* the store such that loadQuizState(examId) returns no unsubmitted session,
\* and the next init for the exam starts a fresh session with empty answers.
C28_SubmittedStaysEnded ==
    [][(quiz.examId = TheExam /\ quiz.submitted) =>
         /\ op' = "validateAndRepair" => LoadsNoneOrSubmitted(localStorage')
         /\ op' = "init" => Fresh(quiz')]_vars

-----------------------------------------------------------------------------
(* The snapshot cursor of one session: after init the caller answers,        *)
(* undoes and redoes, on a store whose history is long enough for no entry   *)
(* to be dropped.                                                            *)

\* Largest config.maxHistorySize of the store whose cursor is followed.
MaxCursorHistory == 4

CursorInit ==
    /\ SessionIdle
    /\ maxHistorySize \in 1..MaxCursorHistory
    /\ StoreEmpty
    /\ op = "create" /\ ret = Void /\ calls = 0
    /\ QueueIdle /\ ScorerIdle /\ ErrorsIdle /\ ResultsIdle /\ PreferencesIdle /\ TimerIdle

CursorNext ==
    \/ calls = 0 /\ CallInit(MaxHistoryCalls)
    \/ calls > 0 /\ CallAnswerQuestion(MaxHistoryCalls)
    \/ calls > 0 /\ CallUndoAnswer(MaxHistoryCalls)
    \/ calls > 0 /\ CallRedoAnswer(MaxHistoryCalls)

SpecCursor == CursorInit /\ [][CursorNext]_vars

\* The answers recorded in the snapshot at cursor position index
SnapshotAnswers(snapshots, index) == MapOf(snapshots[index + 1].answers)

\* C29: while fewer than maxHistorySize answers have been given (the
\* snapshot list, one entry longer than the number of answers, is shorter
\* than maxHistorySize), the answers of the session are the answers of the
\* snapshot at the cursor after every init, answerQuestion, undoAnswer and
\* redoAnswer; and undoAnswer() directly after a successful redoAnswer()
\* succeeds and takes the answers back to those of the snapshot before the
\* one the redo restored.
C29_AnswersMatchCursor ==
    [][/\ (calls' > 0 /\ Len(stateSnapshots') < maxHistorySize)
            => quiz'.answers
                   = SnapshotAnswers(stateSnapshots', currentSnapshotIndex')
       /\ (/\ op = "redoAnswer" /\ ret = Returned(TRUE)
           /\ op' = "undoAnswer")
            => /\ ret' = Returned(TRUE)
               /\ quiz'.answers
                      = SnapshotAnswers(stateSnapshots,
                                        currentSnapshotIndex - 1)]_vars

\* C30: after init and any sequence of toggleFlag, answerQuestion,
\* undoAnswer and redoAnswer calls, flagsUsed is the number of flagged
\* questions of the session, and is not negative.
C30_FlagsUsedCountsFlags ==
    calls > 0 =>
        /\ analytics.flagsUsed = Cardinality(quiz.flaggedQuestions)
        /\ analytics.flagsUsed >= 0

-----------------------------------------------------------------------------
(* The offline queue: deliveries, the persisted list and the offline state   *)

TimerCallbacks == {"immediateTimer", "retryTimer"}
\* The timer whose callback ran in this step
Fired == timers \ timers'

\* C31: no action is processed successfully twice.  Under a caller that
\* never takes an action back an action leaves pendingActions only when a
\* processing of it succeeded, so a timer callback whose processing
\* succeeds finds its action still pending.
C31_DeliveredAtMostOnce ==
    [][op' \in TimerCallbacks =>
         \A t \in Fired :
             processPendingAction(t.action)
                 => t.action.id \in PendingIds(offline)]_vars

\* The pendingActions a reload reads back: loadOfflineState()
loadOfflineState(saved) ==
    IF saved = NotSaved THEN <<>> ELSE saved.state.pendingActions

\* C32: whenever no sync is awaiting its results, the pending-action list
\* persisted under 'offline-state' is the pendingActions list in memory.
C32_PersistedQueueIsCurrent ==
    syncing = NoSync => loadOfflineState(offlineSaved) = offline.pendingActions

\* C33: no timer callback processes an action while isOnline is false.
C33_NoProcessingOffline ==
    [][op' \in TimerCallbacks => offline.isOnline]_vars

-----------------------------------------------------------------------------
(* StorageManager: validateAndRepair run twice                               *)

\* C34: a validateAndRepair() that follows directly on one that found the
\* store healthy reports no repair and leaves the content of the store as
\* it is.
C34_RepairIdempotent ==
    [][(op = "validateAndRepair" /\ ret.isHealthy
          /\ op' = "validateAndRepair")
         => /\ ret'.repairsAttempted = 0
            /\ localStorage' = localStorage]_vars

-----------------------------------------------------------------------------
(* The navigation items of the session store and the scorer                  *)

\* The isCorrect of a navigation item of an answered question: the derived
\* store navigationItems compares new Set(userAnswers.sort()) with
\* new Set(correctAnswers.sort()) by size and membership
navigationItemIsCorrect(question, userAnswers) ==
    LET userAnswersSet == SetOf(Sorted(userAnswers))
        correctAnswersSet == SetOf(Sorted(question.correctAnswers))
    IN  /\ Cardinality(userAnswersSet) = Cardinality(correctAnswersSet)
        /\ \A answer \in userAnswersSet : answer \in correctAnswersSet

\* C35: for every question that has a selection in the answers map, the
\* isCorrect of its navigation item is the isCorrect the scorer gives the
\* question in the result.
C35_NavigationAgreesWithScore ==
    result # Void =>
        \A i \in DOMAIN result.questionResults :
            exam[i].id \in DOMAIN examAnswers
                => navigationItemIsCorrect(exam[i], examAnswers[exam[i].id])
                       = result.questionResults[i].isCorrect

-----------------------------------------------------------------------------
(* StorageManager: observers that unsubscribe                                *)

Registered(list) == {list[i] : i \in 1..Len(list)}

\* C36: when an error is emitted, every callback registered at the start of
\* the emit, other than one that unsubscribes itself during it, receives
\* the error; and a call of the unsubscribe function of one callback, the
\* first or a repeated one, removes no other callback.
C36_UnsubscribeSparesOthers ==
    [][/\ (op' = "loadQuizState" /\ emitted' # <<>>)
            => \A callback \in Registered(errorCallbacks) :
                   ~UnsubscribesItself(callback)
                       => ret'.invoked[callback] >= 1
       /\ op' = "unsubscribe"
            => Registered(errorCallbacks) \ {args'.callback}
                   = Registered(errorCallbacks') \ {args'.callback}]_vars

-----------------------------------------------------------------------------
(* The results store: add                                                    *)

MaxAddCalls == 4

\* Results closer than this in endTime are duplicates: 1000 ms, one unit
\* of Times
DuplicateWindow == 1
\* The in-memory list keeps the latest 500 results
KeptInMemory == 500

AddedResults == [examId : {TheExam, "e2"}, startTime : Times, endTime : Times]

\* Math.abs(a - b)
Abs(n) == IF n < 0 THEN 0 - n ELSE n

isDuplicate(results, res) ==
    \E i \in 1..Len(results) :
        /\ results[i].examId = res.examId
        /\ Abs(results[i].endTime - res.endTime) < DuplicateWindow

RECURSIVE InsertByEndTime(_, _)
\* A result put behind the results that end no earlier than it does
InsertByEndTime(sorted, res) ==
    IF sorted = <<>> THEN <<res>>
    ELSE IF Head(sorted).endTime >= res.endTime
         THEN <<Head(sorted)>> \o InsertByEndTime(Tail(sorted), res)
         ELSE <<res>> \o sorted

RECURSIVE SortByEndTime(_)
\* newResults.sort((a, b) => b.endTime.getTime() - a.endTime.getTime()): the
\* latest first, results of equal endTime in their order (the sort is stable)
SortByEndTime(results) ==
    IF results = <<>> THEN <<>>
    ELSE InsertByEndTime(SortByEndTime(SubSeq(results, 1, Len(results) - 1)),
                         results[Len(results)])

\* list.slice(0, n)
FirstOf(list, n) == IF Len(list) <= n THEN list ELSE SubSeq(list, 1, n)

AddInit ==
    /\ localStorage = [k \in Keys |-> Absent]
    /\ emitted = <<>>
    /\ args = NoArgs
    /\ before = localStorage
    /\ op = "create" /\ ret = Void /\ calls = 0
    /\ maxHistorySize = 1
    /\ SessionIdle /\ QueueIdle /\ ScorerIdle /\ ErrorsIdle /\ ResultsIdle /\ PreferencesIdle /\ TimerIdle

\* results.add(result); invalid: examId or examTitle is falsy or the
\* percentage is outside 0..100
ResultsAdd ==
    \E res \in AddedResults, invalid \in BOOLEAN, throws \in BOOLEAN :
        /\ calls < MaxAddCalls
        /\ calls' = calls + 1
        /\ op' = "results.add"
        /\ args' = [result |-> res, invalid |-> invalid]
        /\ before' = localStorage
        /\ ret' = Void
        /\ emitted' = <<>>
        /\ IF invalid
           THEN /\ resultErrors' =
                       Append(LastOf(resultErrors, 4), "corrupted_data")
                /\ UNCHANGED <<localStorage, resultsStore>>
           ELSE /\ localStorage' = saveQuizResult(localStorage, res, throws)
                /\ resultsStore' =
                       IF isDuplicate(resultsStore, res) THEN resultsStore
                       ELSE FirstOf(SortByEndTime(<<res>> \o resultsStore),
                                    KeptInMemory)
                /\ resultErrors' =
                       SelectSeq(resultErrors,
                                 LAMBDA e : e # "quota_exceeded")
        /\ UNCHANGED <<sessionVars, queueVars, scoreVars, errorVars, prefVars, timerVars>>

AddNext ==
    \/ ResultsAdd
    \/ ResultsLoad

SpecAdd == AddInit /\ [][AddNext]_vars

\* C37: after a results.add the persisted result list and the in-memory
\* list hold the same result records, and a result rejected in memory as a
\* duplicate is not added to the persisted list.
C37_PersistedMatchesMemory ==
    [][(op' = "results.add" /\ ~args'.invalid
          /\ SetOf(getQuizResults(localStorage)) = SetOf(resultsStore))
         => /\ SetOf(getQuizResults(localStorage')) = SetOf(resultsStore')
            /\ isDuplicate(resultsStore, args'.result)
                   => getQuizResults(localStorage')
                          = getQuizResults(localStorage)]_vars

-----------------------------------------------------------------------------
(* The timer store                                                           *)

\* Date.now() ranges over 0..MaxNow; the clock of the model counts minutes
MaxNow == 5
\* finalTime: 5 minutes
FinalTime == 5

\* The durations timer.start is called with: none, 0 and two time limits
Durations == {NoValue, Number(0), Number(4), Number(12)}

WarningTypes == <<"half", "quarter", "final", "overtime">>

\* A number that is neither undefined nor 0
TruthyNumber(v) == v.kind = "number" /\ v.value # 0

\* Math.max(a, b)
Max(a, b) == IF a >= b THEN a ELSE b

createWarnings ==
    [i \in 1..Len(WarningTypes) |->
        [type |-> WarningTypes[i], triggered |-> FALSE]]

\* shouldTrigger of checkWarnings; remaining <= totalDuration / 2 and
\* remaining <= totalDuration / 4 without the division
shouldTrigger(type, remaining, totalDuration) ==
    CASE type = "half" -> 2 * remaining <= totalDuration
      [] type = "quarter" -> 4 * remaining <= totalDuration
      [] type = "final" -> remaining <= FinalTime
      [] type = "overtime" -> remaining <= 0

\* checkWarnings(elapsed, totalDuration): the state its update() sets
checkWarnings(state, elapsed, totalDuration) ==
    LET remaining == Max(0, totalDuration - elapsed)
        newWarnings ==
            [i \in DOMAIN state.warnings |->
                IF state.warnings[i].triggered THEN state.warnings[i]
                ELSE IF shouldTrigger(state.warnings[i].type, remaining,
                                      totalDuration)
                     THEN [state.warnings[i] EXCEPT !.triggered = TRUE]
                     ELSE state.warnings[i]]
    IN  [state EXCEPT !.warnings = newWarnings]

\* The types of the warnings that are triggered in a state
Triggered(state) ==
    {state.warnings[i].type :
        i \in {j \in DOMAIN state.warnings : state.warnings[j].triggered}}

\* timer.getElapsed()
getElapsed ==
    IF timerStore.startTime.kind = "undefined" THEN 0
    ELSE now - timerStore.startTime.value - timerStore.pausedTime

TimerCall(name) ==
    /\ op' = name
    /\ UNCHANGED <<calls, sessionVars, storeVars, storeCallVars, queueVars,
                   scoreVars, errorVars, resultVars, prefVars>>

\* timer.start(duration)
TimerStart ==
    \E duration \in Durations :
        /\ TimerCall("start")
        /\ ret' = Void
        /\ timerStore' =
               [timerStore EXCEPT
                   !.isRunning = TRUE, !.isPaused = FALSE,
                   !.startTime = Number(now), !.pausedTime = 0,
                   !.remainingTime = duration,
                   !.warnings = IF TruthyNumber(duration) THEN createWarnings
                                ELSE <<>>]
        /\ intervalId' = TRUE
        /\ timerLog' = [NoLog EXCEPT !.startedAt = now]
        /\ UNCHANGED now

\* timer.pause()
TimerPause ==
    /\ TimerCall("pause")
    /\ ret' = Void
    /\ IF ~timerStore.isRunning \/ timerStore.isPaused
       THEN UNCHANGED <<timerStore, intervalId, timerLog>>
       ELSE /\ timerStore' = [timerStore EXCEPT !.isPaused = TRUE]
            /\ intervalId' = FALSE
            /\ timerLog' = [timerLog EXCEPT !.pausedAt = now]
    /\ UNCHANGED now

\* timer.resume()
TimerResume ==
    /\ TimerCall("resume")
    /\ ret' = Void
    /\ IF \/ ~timerStore.isRunning
          \/ ~timerStore.isPaused
          \/ timerStore.startTime.kind = "undefined"
       THEN UNCHANGED <<timerStore, intervalId, timerLog>>
       ELSE LET pauseStart == now
                newPausedTime ==
                    timerStore.pausedTime
                        + (pauseStart - timerStore.startTime.value)
            IN  /\ timerStore' =
                       [timerStore EXCEPT
                           !.isPaused = FALSE,
                           !.startTime = Number(pauseStart - newPausedTime),
                           !.pausedTime = 0]
                /\ intervalId' = TRUE
                /\ timerLog' =
                       [timerLog EXCEPT
                           !.pausedTotal = @ + (now - timerLog.pausedAt)]
    /\ UNCHANGED now

\* timer.stop()
TimerStop ==
    /\ TimerCall("stop")
    /\ ret' = Void
    /\ timerStore' = defaultTimerState
    /\ intervalId' = FALSE
    /\ timerLog' = NoLog
    /\ UNCHANGED now

\* timer.clearWarnings()
TimerClearWarnings ==
    /\ TimerCall("clearWarnings")
    /\ ret' = Void
    /\ timerStore' =
           [timerStore EXCEPT
               !.warnings = [i \in DOMAIN @ |-> [@[i] EXCEPT !.triggered = FALSE]]]
    /\ timerLog' = [timerLog EXCEPT !.notified = {}]
    /\ UNCHANGED <<intervalId, now>>

\* timer.getElapsed()
TimerGetElapsed ==
    /\ TimerCall("getElapsed")
    /\ ret' = [elapsed |-> getElapsed]
    /\ UNCHANGED timerVars

\* The interval fires: updateTimer(). update(fn) of a writable is
\* set(fn(value)): checkWarnings sets the store while the callback of
\* updateTimer runs, and the state that callback returns, made from the
\* state it was called with, is set after it. ret holds the warnings
\* checkWarnings triggered.
updateTimer ==
    /\ intervalId
    /\ TimerCall("updateTimer")
    /\ IF ~timerStore.isRunning \/ timerStore.startTime.kind = "undefined"
       THEN /\ ret' = [triggered |-> {}]
            /\ UNCHANGED <<timerStore, timerLog>>
       ELSE LET state == timerStore
                elapsed == now - state.startTime.value - state.pausedTime
                remaining ==
                    IF TruthyNumber(state.remainingTime)
                    THEN Number(Max(0, state.remainingTime.value - elapsed))
                    ELSE NoValue
                checked ==
                    IF remaining.kind # "undefined"
                    THEN checkWarnings(state, elapsed,
                                       state.remainingTime.value)
                    ELSE state
                triggered == Triggered(checked) \ Triggered(state)
            IN  /\ timerStore' = [state EXCEPT !.remainingTime = remaining]
                /\ ret' = [triggered |-> triggered]
                /\ timerLog' =
                       [timerLog EXCEPT !.notified = @ \cup triggered]
    /\ UNCHANGED <<intervalId, now>>

\* Time passes
TimePasses ==
    /\ now < MaxNow
    /\ now' = now + 1
    /\ TimerCall("Date.now")
    /\ UNCHANGED <<ret, timerStore, intervalId, timerLog>>

TimerNext ==
    \/ TimerStart
    \/ TimerPause
    \/ TimerResume
    \/ TimerStop
    \/ TimerClearWarnings
    \/ TimerGetElapsed
    \/ updateTimer
    \/ TimePasses

SpecTimer == Init /\ [][TimerNext]_vars

\* C38: the time spent paused does not count as elapsed: while the timer
\* runs getElapsed() returns the time since the start less the time spent
\* paused, and while it is paused the time from the start to the pause less
\* the time spent in earlier pauses.
C38_PausedTimeNotElapsed ==
    (op = "getElapsed" /\ timerStore.isRunning)
        => ret.elapsed =
               (IF timerStore.isPaused THEN timerLog.pausedAt ELSE now)
                   - timerLog.startedAt - timerLog.pausedTotal

\* C39: during one countdown run a tick triggers no warning that was
\* triggered before, and a warning triggered by a tick is triggered in the
\* timer state after that tick and after every later step, until start,
\* stop or clearWarnings is called.
C39_WarningTriggeredOnce ==
    [][/\ op' = "updateTimer" => ret'.triggered \cap timerLog.notified = {}
       /\ timerLog'.notified \subseteq Triggered(timerStore')]_vars

=============================================================================
